---- MODULE Spec2Model ----
(***************************************************************************)
(* State-machine model of the AgentFlow Manager frontend's backend         *)
(* connector (src/utils/backend_connector.py): BackendConnector and its    *)
(* analyze_company degradation chain, and of the analysis page and the     *)
(* history page of the Streamlit application (src/app.py), which keep      *)
(* their state in st.session_state and in the directory of the PDFs.       *)
(*                                                                         *)
(* Python values are modelled as follows.                                  *)
(*   str    a sequence of pieces (TLA+ strings) whose concatenation is the *)
(*          Python string.  Text that the code searches, lower-cases or    *)
(*          measures is written one character per piece; a literal the     *)
(*          code only stores or formats is a single piece.  A character    *)
(*          outside Latin-1 is written as the piece "U+XXXX".  Runs of     *)
(*          white space inside a template literal are written as one blank.*)
(*   None   the value PyNone.                                              *)
(*   dict   a function from its keys to its values.                        *)
(*   list   a sequence.                                                    *)
(*   float  (estimated_cost) a whole number of cents.                      *)
(* A call that may raise returns [ok |-> FALSE, exc |-> name] or           *)
(* [ok |-> TRUE, value |-> v].                                             *)
(***************************************************************************)
EXTENDS Integers, Sequences, FiniteSets, TLC

VARIABLES
    components_loaded,  \* [session] self.components_loaded
    crewai_real,        \* [session] self.crewai_real
    analyzer,           \* [session] self.analyzer: NoAnalyzer or the engine object's fields
    cwd,                \* the process-wide working directory (os.getcwd())
    pc,                 \* [session] position inside analyze_company
    request,            \* [session] the company_data argument of the running call
    request_in,         \* [session] the argument as it was when the call started
    analysis_config,    \* [session] local analysis_config
    original_dir,       \* [session] local original_dir
    resultado,          \* [session] local resultado
    returned,           \* [session] the record the call returned
    engine_outcome,     \* [session] what execute_analysis did in this call
    engine_calls,       \* [session] execute_analysis invocations in this call
    sim_calls,          \* [session] _create_intelligent_simulation runs in this call
    returns,            \* [session] return statements executed by this call
    prev,               \* [session] the previous call: request, engine outcome, record
    exc,                \* [session] the exception being handled
    calls,              \* [session] calls started so far
    cwd_before,         \* the working directory when the calls now running began
    extract_input,      \* the argument of an extractor called on its own
    crew_result,        \* the resultado argument of _process_crewai_result called on its own
    extracted,          \* what that call returned
    session_state,      \* st.session_state: a dict from keys (str) to values
    script,             \* position of the running script of the analysis page ("page": waiting)
    app_resultado,      \* local resultado of ejecutar_analisis_empresarial
    keys_to_clear,      \* the keys the loop of limpiar_formulario has still to visit
    backend_available,  \* BACKEND_AVAILABLE
    last_analysis,      \* how the last 'Ejecutar Análisis' ended: none, running, success, failure
    had_success,        \* some analysis of the session has succeeded
    resultados_dir,     \* the PDFs in the results directory, each named by its mtime
    pdf_created,        \* PDFs written so far
    armed_by,           \* index -> the file whose 'Eliminar' button last set delete_confirm_{index}
    removed             \* the last unlink of the history page: file, index, arming file

vars == <<components_loaded, crewai_real, analyzer, cwd, pc, request, request_in,
          analysis_config, original_dir, resultado, returned, engine_outcome,
          engine_calls, sim_calls, returns, prev, exc, calls,
          cwd_before, extract_input, crew_result, extracted,
          session_state, script, app_resultado, keys_to_clear, backend_available,
          last_analysis, had_success, resultados_dir, pdf_created, armed_by, removed>>

-----------------------------------------------------------------------------
(* Bounds *)

\* analyze_company calls one session makes
MaxCalls == 2
\* the sessions of the process (Spec runs session 1 alone)
Sessions == {1, 2}

-----------------------------------------------------------------------------
(* Python values *)

PyNone == <<"<None>">>

EmptyDict == [k \in {} |-> <<>>]

Range(f) == {f[i] : i \in DOMAIN f}

\* dict.get(key, default)
Get(d, key, default) == IF key \in DOMAIN d THEN d[key] ELSE default

\* f-string formatting of a value: a str is itself, None is "None"
Fmt(v) == IF v = PyNone THEN <<"N", "o", "n", "e">> ELSE v

\* truthiness of a str-or-None value
Truthy(v) == v # PyNone /\ v # <<>>

LowerChar(c) ==
    CASE c = "A" -> "a" [] c = "B" -> "b" [] c = "C" -> "c" [] c = "D" -> "d"
      [] c = "E" -> "e" [] c = "F" -> "f" [] c = "G" -> "g" [] c = "H" -> "h"
      [] c = "I" -> "i" [] c = "J" -> "j" [] c = "K" -> "k" [] c = "L" -> "l"
      [] c = "M" -> "m" [] c = "N" -> "n" [] c = "O" -> "o" [] c = "P" -> "p"
      [] c = "Q" -> "q" [] c = "R" -> "r" [] c = "S" -> "s" [] c = "T" -> "t"
      [] c = "U" -> "u" [] c = "V" -> "v" [] c = "W" -> "w" [] c = "X" -> "x"
      [] c = "Y" -> "y" [] c = "Z" -> "z"
      [] c = "Á" -> "á" [] c = "É" -> "é" [] c = "Í" -> "í" [] c = "Ó" -> "ó"
      [] c = "Ú" -> "ú" [] c = "Ñ" -> "ñ"
      [] OTHER -> c

\* str.lower() of a character-level text
Lower(s) == [i \in 1..Len(s) |-> LowerChar(s[i])]

\* sub in s, for character-level texts
Contains(sub, s) ==
    \E i \in 0..(Len(s) - Len(sub)) :
        \A j \in 1..Len(sub) : s[i + j] = sub[j]

-----------------------------------------------------------------------------
(* _map_analysis_type *)

MappingKeys == <<
    <<"U+1F3AF", " ", "A", "n", "á", "l", "i", "s", "i", "s", " ", "B", "á", "s", "i", "c", "o", " ", "(", "5", "-", "8", " ", "m", "i", "n", ")">>,
    <<"U+1F4B0", " ", "A", "n", "á", "l", "i", "s", "i", "s", " ", "F", "i", "n", "a", "n", "c", "i", "e", "r", "o", " ", "(", "6", "-", "1", "0", " ", "m", "i", "n", ")">>,
    <<"U+1F30D", " ", "E", "s", "t", "r", "a", "t", "e", "g", "i", "a", " ", "d", "e", " ", "E", "x", "p", "a", "n", "s", "i", "ó", "n", " ", "(", "8", "-", "1", "2", " ", "m", "i", "n", ")">>,
    <<"U+1F4BB", " ", "T", "r", "a", "n", "s", "f", "o", "r", "m", "a", "c", "i", "ó", "n", " ", "D", "i", "g", "i", "t", "a", "l", " ", "(", "1", "0", "-", "1", "5", " ", "m", "i", "n", ")">>,
    <<"U+2699", "U+FE0F", " ", "O", "p", "t", "i", "m", "i", "z", "a", "c", "i", "ó", "n", " ", "O", "p", "e", "r", "a", "c", "i", "o", "n", "a", "l", " ", "(", "7", "-", "1", "1", " ", "m", "i", "n", ")">>,
    <<"U+1F4CA", " ", "P", "l", "a", "n", "i", "f", "i", "c", "a", "c", "i", "ó", "n", " ", "E", "s", "t", "r", "a", "t", "é", "g", "i", "c", "a", " ", "(", "1", "2", "-", "1", "8", " ", "m", "i", "n", ")">>,
    <<"U+1F3E2", " ", "A", "n", "á", "l", "i", "s", "i", "s", " ", "C", "o", "m", "p", "l", "e", "t", "o", " ", "(", "2", "5", "-", "4", "0", " ", "m", "i", "n", ")">>
>>

T_market     == <<"m", "a", "r", "k", "e", "t">>
T_financial  == <<"f", "i", "n", "a", "n", "c", "i", "a", "l">>
T_expansion  == <<"e", "x", "p", "a", "n", "s", "i", "o", "n">>
T_digital    == <<"d", "i", "g", "i", "t", "a", "l">>
T_operations == <<"o", "p", "e", "r", "a", "t", "i", "o", "n", "s">>
T_strategic  == <<"s", "t", "r", "a", "t", "e", "g", "i", "c">>
T_complete   == <<"c", "o", "m", "p", "l", "e", "t", "e">>

MappingValues == <<T_market, T_financial, T_expansion, T_digital, T_operations,
                   T_strategic, T_complete>>

\* the first mapping key, in dict order, that contains the type or is contained in it
MappingHits(frontend_type) ==
    {i \in DOMAIN MappingKeys :
        Contains(frontend_type, MappingKeys[i]) \/ Contains(MappingKeys[i], frontend_type)}

Min(S) == CHOOSE x \in S : \A y \in S : x <= y

MapAnalysisType(frontend_type) ==
    IF ~Truthy(frontend_type) THEN T_market
    ELSE IF MappingHits(frontend_type) # {}
         THEN MappingValues[Min(MappingHits(frontend_type))]
    ELSE LET low == Lower(frontend_type) IN
         IF Contains(<<"f", "i", "n", "a", "n", "c", "i", "e", "r", "o">>, low)
            \/ Contains(<<"f", "i", "n", "a", "n", "c", "i", "a", "l">>, low)
         THEN T_financial
         ELSE IF Contains(<<"e", "x", "p", "a", "n", "s", "i", "o", "n">>, low)
                 \/ Contains(<<"e", "x", "p", "a", "n", "s", "i", "ó", "n">>, low)
         THEN T_expansion
         ELSE IF Contains(<<"d", "i", "g", "i", "t", "a", "l">>, low)
         THEN T_digital
         ELSE IF Contains(<<"o", "p", "e", "r", "a", "c", "i", "o", "n">>, low)
                 \/ Contains(<<"o", "p", "e", "r", "a", "t", "i", "o", "n">>, low)
         THEN T_operations
         ELSE IF Contains(<<"e", "s", "t", "r", "a", "t", "e", "g">>, low)
                 \/ Contains(<<"s", "t", "r", "a", "t", "e", "g", "i", "c">>, low)
         THEN T_strategic
         ELSE IF Contains(<<"c", "o", "m", "p", "l", "e", "t", "o">>, low)
                 \/ Contains(<<"c", "o", "m", "p", "l", "e", "t", "e">>, low)
         THEN T_complete
         ELSE T_market

-----------------------------------------------------------------------------
(* _calculate_real_cost: the cost in cents, or the AttributeError of          *)
(* analysis_type.lower() on a value that is not a str.                        *)

\* len(str(config.get("additional_info", {}))): the default is "{}"
AdditionalTextLen(config) ==
    IF "additional_info" \in DOMAIN config THEN Len(Fmt(config["additional_info"])) ELSE 2

\* round(base_cost, 2) of a cost held in tenths of a cent
RoundCents(mills) == (mills + 5) \div 10

CalculateRealCost(config) ==
    LET analysis_type == Get(config, "analysis_type", <<"b", "a", "s", "i", "c", "o">>) IN
    IF analysis_type = PyNone THEN [ok |-> FALSE, exc |-> "AttributeError"]
    ELSE LET low  == Lower(analysis_type)
             base == IF Contains(<<"c", "o", "m", "p", "l", "e", "t", "o">>, low) THEN 100 * 10
                     ELSE IF Contains(<<"e", "s", "t", "r", "a", "t", "e", "g", "i", "c", "o">>, low) THEN 100 * 5
                     ELSE IF Contains(<<"d", "i", "g", "i", "t", "a", "l">>, low) THEN 100 * 3
                     ELSE 100
             cost == IF AdditionalTextLen(config) > 500 THEN (base * 15) \div 10 ELSE base
         IN  [ok |-> TRUE, value |-> RoundCents(cost)]

-----------------------------------------------------------------------------
(* Text helpers of the extractors (character-level texts) *)

\* the positions from i on at which sub occurs in s
OccursFrom(sub, s, i) ==
    {p \in i..(Len(s) - Len(sub) + 1) : \A j \in 1..Len(sub) : s[p + j - 1] = sub[j]}

RECURSIVE CountFrom(_, _, _)
\* str.count(sub): occurrences of sub in s found left to right without overlap
CountFrom(sub, s, i) ==
    IF OccursFrom(sub, s, i) = {} THEN 0
    ELSE 1 + CountFrom(sub, s, Min(OccursFrom(sub, s, i)) + Len(sub))

Count(sub, s) == CountFrom(sub, s, 1)

\* s[:n]
Prefix(s, n) == SubSeq(s, 1, IF n < Len(s) THEN n ELSE Len(s))

\* s.startswith(p)
StartsWith(s, p) == Len(p) <= Len(s) /\ SubSeq(s, 1, Len(p)) = p

-----------------------------------------------------------------------------
(* _extract_growth_potential *)

ExtractGrowthPotential(result_text) ==
    IF ~Truthy(result_text) THEN <<"Medio">>
    ELSE LET text_lower == Lower(result_text) IN
         IF \/ Contains(<<"a", "l", "t", "o", " ", "c", "r", "e", "c", "i", "m", "i", "e", "n", "t", "o">>, text_lower)
            \/ Contains(<<"g", "r", "a", "n", " ", "p", "o", "t", "e", "n", "c", "i", "a", "l">>, text_lower)
            \/ Contains(<<"e", "x", "c", "e", "l", "e", "n", "t", "e", " ", "o", "p", "o", "r", "t", "u", "n", "i", "d", "a", "d">>, text_lower)
         THEN <<"Alto">>
         ELSE IF \/ Contains(<<"c", "r", "e", "c", "i", "m", "i", "e", "n", "t", "o", " ", "m", "o", "d", "e", "r", "a", "d", "o">>, text_lower)
                 \/ Contains(<<"p", "o", "t", "e", "n", "c", "i", "a", "l", " ", "m", "e", "d", "i", "o">>, text_lower)
                 \/ Contains(<<"o", "p", "o", "r", "t", "u", "n", "i", "d", "a", "d", "e", "s">>, text_lower)
         THEN <<"Medio">>
         ELSE IF \/ Contains(<<"e", "x", "p", "a", "n", "s", "i", "ó", "n">>, text_lower)
                 \/ Contains(<<"d", "i", "v", "e", "r", "s", "i", "f", "i", "c", "a", "r">>, text_lower)
                 \/ Contains(<<"i", "m", "p", "l", "e", "m", "e", "n", "t", "a", "r">>, text_lower)
                 \/ Contains(<<"f", "o", "r", "t", "a", "l", "e", "c", "e", "r">>, text_lower)
         THEN <<"Medio-Alto">>
         ELSE IF \/ Contains(<<"d", "e", "s", "a", "f", "í", "o">>, text_lower)
                 \/ Contains(<<"c", "o", "m", "p", "e", "t", "e", "n", "c", "i", "a", " ", "i", "n", "t", "e", "n", "s", "a">>, text_lower)
                 \/ Contains(<<"r", "i", "e", "s", "g", "o">>, text_lower)
         THEN <<"Moderado">>
         ELSE <<"Medio">>

-----------------------------------------------------------------------------
(* _extract_risk_level *)

threat_indicators == <<
    <<"a", "m", "e", "n", "a", "z", "a">>,
    <<"r", "i", "e", "s", "g", "o">>,
    <<"d", "e", "s", "a", "f", "í", "o">>,
    <<"c", "o", "m", "p", "e", "t", "e", "n", "c", "i", "a", " ", "i", "n", "t", "e", "n", "s", "a">>,
    <<"c", "a", "m", "b", "i", "o", "s", " ", "r", "e", "g", "u", "l", "a", "t", "o", "r", "i", "o", "s">>
>>

\* ExtractRiskLevel labelling the lowest level as the simulation record does
ExtractRiskLevel_MedioBajo(result_text) ==
    IF ~Truthy(result_text) THEN <<"Bajo">>
    ELSE LET text_lower    == Lower(result_text)
             threat_count  == Cardinality({i \in DOMAIN threat_indicators :
                                              Contains(threat_indicators[i], text_lower)})
             opportunities == Count(<<"o", "p", "o", "r", "t", "u", "n", "i", "d", "a", "d">>, text_lower)
             threats       == Count(<<"a", "m", "e", "n", "a", "z", "a">>, text_lower)
                              + Count(<<"r", "i", "e", "s", "g", "o">>, text_lower)
         IN  IF threat_count >= 3 \/ threats > opportunities THEN <<"Alto">>
             ELSE IF threat_count = 2 \/ threats = opportunities THEN <<"Medio">>
             ELSE <<"Medio-Bajo">>

\* ExtractRiskLevel counting 'amenaza' alone as a threat
ExtractRiskLevel_IgnoresRiesgo(result_text) ==
    IF ~Truthy(result_text) THEN <<"Bajo">>
    ELSE LET text_lower    == Lower(result_text)
             threat_count  == Cardinality({i \in DOMAIN threat_indicators :
                                              Contains(threat_indicators[i], text_lower)})
             opportunities == Count(<<"o", "p", "o", "r", "t", "u", "n", "i", "d", "a", "d">>, text_lower)
             threats       == Count(<<"a", "m", "e", "n", "a", "z", "a">>, text_lower)
         IN  IF threat_count >= 3 \/ threats > opportunities THEN <<"Alto">>
             ELSE IF threat_count = 2 \/ threats = opportunities THEN <<"Medio">>
             ELSE <<"Bajo">>

ExtractRiskLevel(result_text) ==
    IF ~Truthy(result_text) THEN <<"Bajo">>
    ELSE LET text_lower    == Lower(result_text)
             threat_count  == Cardinality({i \in DOMAIN threat_indicators :
                                              Contains(threat_indicators[i], text_lower)})
             opportunities == Count(<<"o", "p", "o", "r", "t", "u", "n", "i", "d", "a", "d">>, text_lower)
             threats       == Count(<<"a", "m", "e", "n", "a", "z", "a">>, text_lower)
                              + Count(<<"r", "i", "e", "s", "g", "o">>, text_lower)
         IN  IF threat_count >= 3 \/ threats > opportunities THEN <<"Alto">>
             ELSE IF threat_count = 2 \/ threats = opportunities THEN <<"Medio">>
             ELSE <<"Bajo">>

-----------------------------------------------------------------------------
(* _extract_recommendations *)

Whitespace == {" ", "\t", "\n", "\r", "\f"}

RECURSIVE LStrip(_)
LStrip(s) == IF s # <<>> /\ Head(s) \in Whitespace THEN LStrip(Tail(s)) ELSE s

RECURSIVE RStrip(_)
RStrip(s) ==
    IF s # <<>> /\ s[Len(s)] \in Whitespace THEN RStrip(SubSeq(s, 1, Len(s) - 1)) ELSE s

\* str.strip()
Strip(s) == RStrip(LStrip(s))

\* the position of the k-th newline of s; 0 before the first, Len(s) + 1 after the last
NewlineAt(s, k) ==
    LET newlines == {i \in 1..Len(s) : s[i] = "\n"} IN
    IF k = 0 THEN 0
    ELSE IF k > Cardinality(newlines) THEN Len(s) + 1
    ELSE CHOOSE p \in newlines : Cardinality({q \in newlines : q < p}) = k - 1

\* str.split('\n'): the pieces between the newlines
SplitLines(s) ==
    [k \in 1..(Cardinality({i \in 1..Len(s) : s[i] = "\n"}) + 1) |->
        SubSeq(s, NewlineAt(s, k - 1) + 1, NewlineAt(s, k) - 1)]

\* the lines of the text, each stripped (line = line.strip())
StrippedLines(s) == LET lines == SplitLines(s) IN [i \in DOMAIN lines |-> Strip(lines[i])]

\* str.isdigit() of one character
IsDigit(c) == c \in {"0", "1", "2", "3", "4", "5", "6", "7", "8", "9", "¹", "²", "³"}

SectionHeader == <<"r", "e", "c", "o", "m", "e", "n", "d", "a", "c", "i", "o", "n", "e", "s", " ", "e", "s", "t", "r", "a", "t", "é", "g", "i", "c", "a", "s">>

NumberPrefixes == << <<"1", ".">>, <<"2", ".">>, <<"3", ".">>, <<"4", ".">>, <<"5", ".">> >>

ListPrefixes == NumberPrefixes \o << <<"-">>, <<"U+2022">> >>

StartsWithAny(line, prefixes) == \E i \in DOMAIN prefixes : StartsWith(line, prefixes[i])

\* CleanRec leaving the list prefix in place
CleanRec_KeepsPrefix(line) == line

\* the line without the first prefix, in list order, that it starts with; stripped
CleanRec(line) ==
    LET k == Min({i \in DOMAIN ListPrefixes : StartsWith(line, ListPrefixes[i])})
    IN  Strip(SubSeq(line, Len(ListPrefixes[k]) + 1, Len(line)))

RECURSIVE SectionScan_NoBreak(_, _, _, _)
\* SectionScan going on past the line that opens a new section
SectionScan_NoBreak(lines, i, in_recommendations_section, recommendations) ==
    IF i > Len(lines) THEN recommendations
    ELSE LET line == lines[i] IN
         IF Contains(SectionHeader, Lower(line))
         THEN SectionScan_NoBreak(lines, i + 1, TRUE, recommendations)
         ELSE IF in_recommendations_section /\ StartsWithAny(line, ListPrefixes)
         THEN SectionScan_NoBreak(lines, i + 1, TRUE,
                  IF Len(CleanRec(line)) > 20
                  THEN Append(recommendations, CleanRec(line))
                  ELSE recommendations)
         ELSE SectionScan_NoBreak(lines, i + 1, in_recommendations_section, recommendations)

RECURSIVE SectionScan(_, _, _, _)
\* the loop over the lines of the "Recomendaciones Estratégicas" search
SectionScan(lines, i, in_recommendations_section, recommendations) ==
    IF i > Len(lines) THEN recommendations
    ELSE LET line == lines[i] IN
         IF Contains(SectionHeader, Lower(line))
         THEN SectionScan(lines, i + 1, TRUE, recommendations)
         ELSE IF in_recommendations_section
         THEN IF StartsWithAny(line, ListPrefixes)
              THEN SectionScan(lines, i + 1, TRUE,
                       IF Len(CleanRec(line)) > 20
                       THEN Append(recommendations, CleanRec(line))
                       ELSE recommendations)
              ELSE IF line # <<>> /\ ~IsDigit(line[1]) /\ Len(line) > 50
              THEN recommendations
              ELSE SectionScan(lines, i + 1, TRUE, recommendations)
         ELSE SectionScan(lines, i + 1, FALSE, recommendations)

SectionRecs(result_text) ==
    IF Contains(SectionHeader, Lower(result_text))
    THEN SectionScan(StrippedLines(result_text), 1, FALSE, <<>>)
    ELSE <<>>

ActionKeywords == {
    <<"p", "r", "i", "o", "r", "i", "z", "a", "r">>,
    <<"i", "m", "p", "l", "e", "m", "e", "n", "t", "a", "r">>,
    <<"d", "e", "s", "a", "r", "r", "o", "l", "l", "a", "r">>,
    <<"e", "s", "t", "a", "b", "l", "e", "c", "e", "r">>,
    <<"m", "a", "n", "t", "e", "n", "e", "r">>
}

IsKeywordLine(line) ==
    /\ \E keyword \in ActionKeywords : Contains(keyword, Lower(line))
    /\ Len(line) > 30
    /\ Len(line) < 200

KeywordRecs(result_text) == SelectSeq(StrippedLines(result_text), IsKeywordLine)

IsNumberedLine(line) == StartsWithAny(line, NumberPrefixes) /\ Len(line) > 30

NumberedRecs(result_text) ==
    LET hits == SelectSeq(StrippedLines(result_text), IsNumberedLine)
    IN  [i \in DOMAIN hits |-> Strip(SubSeq(hits[i], 3, Len(hits[i])))]

EmptyInputRecs == <<
    <<"Revisar análisis detallado">>,
    <<"Implementar estrategias sugeridas">>,
    <<"Monitorear resultados">>
>>

CannedRecs == <<
    <<"Revisar análisis completo de competencia generado por CrewAI">>,
    <<"Implementar estrategias de personalización identificadas">>,
    <<"Desarrollar canales de venta en línea según recomendaciones">>,
    <<"Establecer métricas de seguimiento sugeridas">>,
    <<"Ejecutar plan de acción de 90 días propuesto">>
>>

\* ExtractRecommendations running every search whatever the earlier ones collected
ExtractRecommendations_Ungated(result_text) ==
    IF ~Truthy(result_text) THEN EmptyInputRecs
    ELSE LET found == SectionRecs(result_text) \o KeywordRecs(result_text)
                          \o NumberedRecs(result_text)
         IN  Prefix(IF found = <<>> THEN CannedRecs ELSE found, 5)

\* ExtractRecommendations without the final [:5]
ExtractRecommendations_Uncapped(result_text) ==
    IF ~Truthy(result_text) THEN EmptyInputRecs
    ELSE LET stage1 == SectionRecs(result_text)
             stage2 == IF stage1 = <<>> THEN KeywordRecs(result_text) ELSE stage1
             stage3 == IF stage2 = <<>> THEN NumberedRecs(result_text) ELSE stage2
         IN  IF stage3 = <<>> THEN CannedRecs ELSE stage3

ExtractRecommendations(result_text) ==
    IF ~Truthy(result_text) THEN EmptyInputRecs
    ELSE LET stage1 == SectionRecs(result_text)
             stage2 == IF stage1 = <<>> THEN KeywordRecs(result_text) ELSE stage1
             stage3 == IF stage2 = <<>> THEN NumberedRecs(result_text) ELSE stage2
             stage4 == IF stage3 = <<>> THEN CannedRecs ELSE stage3
         IN  Prefix(stage4, 5)

-----------------------------------------------------------------------------
(* _get_agents_for_type *)

GetAgentsForType(analysis_type) ==
    CASE analysis_type = T_market ->
           << <<"Investigador de Mercado">>, <<"Analista de Tendencias">>, <<"Estratega de Mercado">> >>
      [] analysis_type = T_financial ->
           << <<"Analista Financiero">>, <<"Auditor de Costos">>, <<"Estratega de Inversión">> >>
      [] analysis_type = T_expansion ->
           << <<"Investigador de Mercado">>, <<"Analista de Ubicaciones">>, <<"Estratega de Expansión">> >>
      [] analysis_type = T_digital ->
           << <<"Auditor Digital">>, <<"Especialista E-commerce">>, <<"Estratega de Marketing">> >>
      [] analysis_type = T_operations ->
           << <<"Analista de Inventario">>, <<"Especialista en Logística">>, <<"Optimizador de Ventas">> >>
      [] analysis_type = T_strategic ->
           << <<"Investigador de Mercado">>, <<"Estratega de Tecnología">>, <<"Planificador Financiero">> >>
      [] analysis_type = T_complete ->
           << <<"Manager">>, <<"Investigador">>, <<"Estratega">>, <<"Analista">>, <<"Especialista Digital">> >>
      [] OTHER -> << <<"Agente Generalista">> >>

-----------------------------------------------------------------------------
(* _process_crewai_result.  An engine result object is                       *)
(*   [falsy |-> bool(resultado) is False, attrs |-> its attributes among raw  *)
(*    and output, text |-> str(resultado), str_raises |-> str(resultado)      *)
(*    raises].                                                                *)

Ellipsis == <<".", ".", ".">>

\* Truncate500 cutting from 500 characters on
Truncate500_Inclusive(x) == IF Len(x) >= 500 THEN Prefix(x, 500) \o Ellipsis ELSE x

\* x[:500] + "..." if len(x) > 500 else x
Truncate500(x) == IF Len(x) > 500 THEN Prefix(x, 500) \o Ellipsis ELSE x

SelectedText(res) ==
    IF "raw" \in DOMAIN res.attrs THEN Fmt(res.attrs["raw"])
    ELSE IF "output" \in DOMAIN res.attrs THEN Fmt(res.attrs["output"])
    ELSE IF ~res.falsy THEN res.text ELSE <<>>

ProcessCrewaiResult(res, config) ==
    LET resultado_str == SelectedText(res) IN
    [
      executive_summary |-> Truncate500(resultado_str),
      detailed_analysis |-> [
          content |-> resultado_str,
          methodology |-> <<"Análisis multi-agente CrewAI">>,
          agents_used |-> GetAgentsForType(config["analysis_type"]),
          full_analysis |-> resultado_str
        ],
      metrics |-> [
          overall_score |-> 85,
          confidence |-> IF Len(resultado_str) > 500 THEN <<"Alta">> ELSE <<"Media">>,
          data_quality |-> <<"Buena">>,
          completion_rate |-> <<"100%">>,
          growth_potential |-> ExtractGrowthPotential(resultado_str),
          risk_level |-> ExtractRiskLevel(resultado_str)
        ],
      recommendations |-> ExtractRecommendations(resultado_str),
      next_steps |-> <<
          <<"Revisar análisis detallado generado por CrewAI">>,
          <<"Implementar recomendaciones priorizadas">>,
          <<"Monitorear resultados y ajustar estrategia">>
        >>,
      raw_result |-> resultado_str,
      crewai_output |-> resultado_str
    ]

-----------------------------------------------------------------------------
(* _create_intelligent_simulation: the record, or the exception that          *)
(* _calculate_real_cost raises while the record is built.                     *)

SimulationRecord(company_data) ==
    LET company_name  == Get(company_data, "name", <<"Empresa">>)
        industry      == Get(company_data, "industry", <<"General">>)
        location      == Get(company_data, "location", <<"Ubicación">>)
        analysis_type == Get(company_data, "analysis_type", <<"Básico">>)
    IN
    [
      success |-> TRUE,
      simulation_mode |-> TRUE,
      analysis |-> [
          executive_summary |-> <<" ANÁLISIS EMPRESARIAL AVANZADO - ">> \o
                Fmt(company_name) \o
                <<" =============================================== **Empresa**: ">> \o
                Fmt(company_name) \o
                <<" **Sector**: ">> \o
                Fmt(industry) \o
                <<" **Ubicación**: ">> \o
                Fmt(location) \o
                <<" **Tipo de Análisis**: ">> \o
                Fmt(analysis_type) \o
                <<" RESUMEN EJECUTIVO: El análisis de ">> \o
                Fmt(company_name) \o
                <<" en el sector ">> \o
                Fmt(industry) \o
                <<" revela un panorama empresarial con potencial de crecimiento significativo. La empresa presenta características sólidas para el desarrollo en su mercado objetivo, con oportunidades claras de optimización y expansión estratégica. CONTEXTO DE MERCADO: El sector ">> \o
                Fmt(industry) \o
                <<" muestra tendencias positivas con oportunidades de digitalización y mejora operacional. La ubicación en ">> \o
                Fmt(location) \o
                <<" proporciona ventajas competitivas específicas para el tipo de negocio analizado. METODOLOGÍA: Este análisis ha sido generado utilizando la metodología AgentFlow Manager FASE 3, aplicando patrones de análisis empresarial reconocidos y adaptados específicamente para el contexto de ">> \o
                Fmt(company_name) \o
                <<". ">>,
          detailed_analysis |-> [
              methodology |-> <<"Simulación Inteligente FASE 3">>,
              content |-> <<" ANÁLISIS DETALLADO ================== 1. ANÁLISIS DE POSICIONAMIENTO - Empresa bien establecida en ">> \o
                    Fmt(industry) \o
                    <<" - Presencia en ">> \o
                    Fmt(location) \o
                    <<" con potencial de expansión - Diferenciación competitiva identificada 2. EVALUACIÓN OPERACIONAL - Procesos core funcionales - Oportunidades de automatización detectadas - Eficiencia operacional: 78% (por encima de promedio sectorial) 3. ANÁLISIS FINANCIERO - Estructura de costos optimizable - Potencial de mejora en márgenes: 15-25% - ROI proyectado para mejoras: 180-250% 4. ANÁLISIS DIGITAL - Madurez digital: Nivel intermedio - Oportunidades de transformación identificadas - Potencial de automatización: Alto 5. ESTRATEGIA DE CRECIMIENTO - Mercado objetivo claramente definido - Canales de expansión viables identificados - Escalabilidad: Favorable ">>,
              agents_used |-> <<
                  <<"Analista Estratégico Principal">>,
                  <<"Especialista en Análisis Sectorial">>,
                  <<"Consultor de Optimización">>,
                  <<"Investigador de Mercado">>
                >>
            ],
          metrics |-> [
              overall_score |-> 82,
              growth_potential |-> <<"Alto">>,
              risk_level |-> <<"Medio-Bajo">>,
              digital_readiness |-> <<"75%">>,
              market_position |-> <<"Competitiva">>,
              operational_efficiency |-> <<"78%">>,
              financial_health |-> <<"Buena">>,
              scalability_index |-> <<"8.2/10">>,
              innovation_capacity |-> <<"Alta">>,
              competitive_advantage |-> <<"Moderada-Alta">>
            ],
          recommendations |-> <<
              <<"Implementar estrategia de digitalización progresiva adaptada al sector ">> \o
                    Fmt(industry),
              <<"Optimizar procesos operacionales core de ">> \o
                    Fmt(company_name) \o
                    <<" para mejorar eficiencia">>,
              <<"Desarrollar plan de expansión regional desde base en ">> \o
                    Fmt(location),
              <<"Establecer sistema de métricas KPI avanzado para monitoreo continuo">>,
              <<"Invertir en capacitación del equipo en nuevas tecnologías del sector">>,
              <<"Explorar alianzas estratégicas con empresas complementarias en ">> \o
                    Fmt(industry),
              <<"Implementar sistema CRM avanzado para optimización de ventas">>,
              <<"Desarrollar propuesta de valor diferenciada para mercado objetivo">>
            >>,
          next_steps |-> <<
              <<"Priorizar recomendaciones según impacto y recursos disponibles">>,
              <<"Desarrollar plan de implementación detallado por fases">>,
              <<"Establecer sistema de seguimiento y métricas de progreso">>,
              <<"Evaluar necesidades de inversión para cada iniciativa">>,
              <<"Configurar sistema CrewAI real para análisis más profundos">>
            >>,
          swot_analysis |-> [
              strengths |-> <<
                  <<"Posicionamiento sólido en ">> \o
                        Fmt(industry),
                  <<"Conocimiento profundo del mercado en ">> \o
                        Fmt(location),
                  <<"Equipo con experiencia sectorial">>,
                  <<"Adaptabilidad a cambios del mercado">>
                >>,
              weaknesses |-> <<
                  <<"Oportunidades de automatización no explotadas">>,
                  <<"Sistema de métricas básico">>,
                  <<"Presencia digital mejorable">>
                >>,
              opportunities |-> <<
                  <<"Crecimiento del sector ">> \o
                        Fmt(industry),
                  <<"Digitalización empresarial acelerada">>,
                  <<"Expansión a mercados adyacentes">>,
                  <<"Optimización con IA y automatización">>
                >>,
              threats |-> <<
                  <<"Competencia creciente en el sector">>,
                  <<"Cambios regulatorios potenciales">>,
                  <<"Disrupciones tecnológicas">>
                >>
            ]
        ],
      source |-> <<"AgentFlow Manager FASE 3 (Simulación Inteligente)">>,
      estimated_cost |-> CalculateRealCost(company_data).value,
      processing_time |-> <<"0.8 segundos">>,
      pdf_ready |-> TRUE,
      note |-> <<"Análisis generado por simulación inteligente. Para análisis más profundos, configure sistema CrewAI real.">>
    ]

CreateIntelligentSimulation(company_data) ==
    IF CalculateRealCost(company_data).ok
    THEN [ok |-> TRUE, value |-> SimulationRecord(company_data)]
    ELSE [ok |-> FALSE, exc |-> CalculateRealCost(company_data).exc]

-----------------------------------------------------------------------------
(* _create_fallback_result *)

\* CreateFallbackResult tagged like _create_hybrid_result
CreateFallbackResult_HybridTag(company_data, error_msg) ==
    [
      success |-> TRUE,
      simulation_mode |-> TRUE,
      analysis |-> [
          executive_summary |-> <<"Análisis de fallback para ">> \o
                Fmt(Get(company_data, "name", <<"empresa">>)),
          metrics |-> [overall_score |-> 70, confidence |-> <<"Media">>, status |-> <<"Fallback mode">>],
          recommendations |-> << <<"Verificar configuración del sistema CrewAI">> >>
        ],
      source |-> <<"Sistema Híbrido CrewAI">>,
      estimated_cost |-> 0,
      processing_time |-> <<"< 1 segundo">>,
      note |-> <<"Error en CrewAI: ">> \o Fmt(error_msg)
    ]

CreateFallbackResult(company_data, error_msg) ==
    [
      success |-> TRUE,
      simulation_mode |-> TRUE,
      analysis |-> [
          executive_summary |-> <<"Análisis de fallback para ">> \o
                Fmt(Get(company_data, "name", <<"empresa">>)),
          detailed_analysis |-> [
              content |-> <<"Sistema en modo de recuperación. Error: ">> \o
                    Fmt(error_msg),
              methodology |-> <<"Modo de emergencia">>,
              note |-> <<"Conexión con CrewAI interrumpida">>
            ],
          metrics |-> [
              overall_score |-> 70,
              confidence |-> <<"Media">>,
              status |-> <<"Fallback mode">>
            ],
          recommendations |-> <<
              <<"Verificar configuración del sistema CrewAI">>,
              <<"Revisar conectividad y dependencias">>,
              <<"Intentar análisis nuevamente">>
            >>
        ],
      source |-> <<"Sistema de Fallback">>,
      estimated_cost |-> 0,
      processing_time |-> <<"< 1 segundo">>,
      note |-> <<"Error en CrewAI: ">> \o
            Fmt(error_msg)
    ]

-----------------------------------------------------------------------------
(* analyze_company: the request and the analysis_config built from it.        *)
(* A request is [is_dict |-> the argument is a dict, top |-> its entries      *)
(* other than 'company_data', nested |-> "absent", "dict" or "nondict" for    *)
(* its 'company_data' entry, cd |-> that entry when it is a dict].            *)

\* empresa_datos
EmpresaDatos(req) == IF req.nested = "absent" THEN req.top ELSE req.cd

AnalysisConfig(req) ==
    LET company_data  == req.top
        empresa_datos == EmpresaDatos(req)
    IN
    [
      nombre |-> Get(empresa_datos, "nombre", Get(empresa_datos, "name", <<"Empresa">>)),
      industria |-> Get(empresa_datos, "industria", Get(empresa_datos, "industry", <<"General">>)),
      ubicacion |-> Get(empresa_datos, "ubicacion", Get(empresa_datos, "location", <<"No especificada">>)),
      language |-> Get(company_data, "language", <<"es">>),
      analysis_type |-> MapAnalysisType(Get(company_data, "analysis_type", T_market)),
      descripcion |-> <<"Empresa en el sector ">> \o
            Fmt(Get(empresa_datos, "industria", Get(empresa_datos, "industry", <<"general">>))),
      productos_servicios |-> Get(empresa_datos, "productos_servicios", Get(empresa_datos, "products", <<>>)),
      productos |-> Get(empresa_datos, "productos_servicios", Get(empresa_datos, "products", <<>>)),
      competencia_principal |-> Get(empresa_datos, "competencia_principal", Get(empresa_datos, "competitors", <<>>)),
      competidores |-> Get(empresa_datos, "competencia_principal", Get(empresa_datos, "competitors", <<>>)),
      retos |-> Get(empresa_datos, "retos", Get(empresa_datos, "challenges", <<>>)),
      desafios |-> Get(empresa_datos, "retos", Get(empresa_datos, "challenges", <<>>)),
      objetivos |-> Get(empresa_datos, "objetivos", Get(empresa_datos, "goals", <<>>)),
      prioridad |-> Get(company_data, "priority", <<"Estándar">>),
      clientes |-> <<"B2B y B2C">>,
      canales_venta |-> <<"Múltiples canales">>,
      tamano |-> <<"Mediana empresa">>,
      anos_operacion |-> <<"Varios años">>
    ]

\* BuildAnalysisConfig rejecting a request that names no company
BuildAnalysisConfig_RequiresName(req) ==
    IF ~req.is_dict THEN [ok |-> FALSE, exc |-> "TypeError"]
    ELSE IF req.nested = "nondict" THEN [ok |-> FALSE, exc |-> "AttributeError"]
    ELSE IF {"nombre", "name"} \cap DOMAIN EmpresaDatos(req) = {}
    THEN [ok |-> FALSE, exc |-> "ValueError"]
    ELSE [ok |-> TRUE, value |-> AnalysisConfig(req)]

\* lines 203-228: the config, or the exception of `in` / .get on a value that is no dict
BuildAnalysisConfig(req) ==
    IF ~req.is_dict THEN [ok |-> FALSE, exc |-> "TypeError"]
    ELSE IF req.nested = "nondict" THEN [ok |-> FALSE, exc |-> "AttributeError"]
    ELSE [ok |-> TRUE, value |-> AnalysisConfig(req)]

\* the record of a completed real analysis (lines 268-277)
RealRecord(res, config, processing_time) ==
    [
      success |-> TRUE,
      analysis |-> ProcessCrewaiResult(res, config),
      source |-> <<"CrewAI Real System">>,
      estimated_cost |-> CalculateRealCost(config).value,
      processing_time |-> processing_time,
      pdf_ready |-> TRUE,
      simulation_mode |-> FALSE,
      crew_result |-> Truncate500(res.text)
    ]

\* the record of the general exception handler (lines 300-304)
ErrorRecord(e, company_data) ==
    [
      success |-> FALSE,
      error |-> <<"Error en análisis: ", e>>,
      details |-> company_data
    ]

\* the record returned when the system is not ready (lines 193-197); of
\* get_system_status only the entries read from the connector's flags are kept
NotReadyRecord(loaded) ==
    [
      success |-> FALSE,
      error |-> <<"Sistema no está listo. Verifica configuración.">>,
      details |-> [ready |-> loaded, components |-> loaded]
    ]

\* OuterExcept without the outer try block: the exception leaves analyze_company
OuterExcept_Missing == "propagated"

\* where an exception raised inside the outer try block is handled (line 298)
OuterExcept == "general_error"

-----------------------------------------------------------------------------
(* Inputs *)

N_Acme   == <<"Acme Corp">>
I_Retail == <<"Retail">>
L_Lima   == <<"Lima">>

NotADict == [is_dict |-> FALSE, top |-> EmptyDict, nested |-> "absent", cd |-> EmptyDict]

FlatRequest(top) == [is_dict |-> TRUE, top |-> top, nested |-> "absent", cd |-> EmptyDict]

NestedRequest(top, cd) == [is_dict |-> TRUE, top |-> top, nested |-> "dict", cd |-> cd]

\* the request ejecutar_analisis_empresarial builds (src/app.py)
AppRequest(empresa, analysis_type) ==
    NestedRequest([analysis_type |-> analysis_type, language |-> <<"es">>, priority |-> <<"Estándar">>],
                  empresa @@ [productos_servicios |-> <<"Ropa">>, competencia_principal |-> <<>>,
                              retos |-> <<>>, objetivos |-> <<"Crecer">>])

Requests == {
    FlatRequest([name |-> N_Acme, industry |-> I_Retail, location |-> L_Lima]),
    FlatRequest([name |-> N_Acme, industry |-> I_Retail, location |-> L_Lima, analysis_type |-> T_complete]),
    FlatRequest([name |-> N_Acme, industry |-> I_Retail, location |-> L_Lima, analysis_type |-> PyNone]),
    FlatRequest([nombre |-> N_Acme, industria |-> I_Retail, ubicacion |-> L_Lima, analysis_type |-> T_digital]),
    AppRequest([nombre |-> N_Acme, industria |-> I_Retail, ubicacion |-> L_Lima], T_market),
    AppRequest([nombre |-> N_Acme, industria |-> I_Retail, ubicacion |-> L_Lima], T_strategic),
    NestedRequest([analysis_type |-> T_market], [name |-> N_Acme, industry |-> I_Retail, location |-> L_Lima]),
    FlatRequest([industry |-> I_Retail, location |-> L_Lima]),
    AppRequest([industria |-> I_Retail, ubicacion |-> L_Lima], T_market),
    FlatRequest(EmptyDict),
    [is_dict |-> TRUE, top |-> [language |-> <<"es">>], nested |-> "nondict", cd |-> EmptyDict],
    NotADict
}

E_Informe == <<"I", "n", "f", "o", "r", "m", "e", " ", "d", "e", " ", "m", "e", "r", "c", "a", "d", "o", " ", "l", "i", "s", "t", "o">>
E_Riesgo  == <<"R", "i", "e", "s", "g", "o", " ", "a", "l", "t", "o", ":", " ", "c", "o", "m", "p", "e", "t", "e", "n", "c", "i", "a", " ", "i", "n", "t", "e", "n", "s", "a">>

\* what execute_analysis may return
EngineResults == {
    [falsy |-> TRUE,  attrs |-> EmptyDict, text |-> <<"N", "o", "n", "e">>, str_raises |-> FALSE],
    [falsy |-> TRUE,  attrs |-> EmptyDict, text |-> <<>>, str_raises |-> FALSE],
    [falsy |-> FALSE, attrs |-> [raw |-> E_Informe], text |-> E_Informe, str_raises |-> FALSE],
    [falsy |-> FALSE, attrs |-> EmptyDict, text |-> E_Riesgo, str_raises |-> FALSE],
    [falsy |-> FALSE, attrs |-> [raw |-> E_Riesgo], text |-> <<>>, str_raises |-> TRUE]
}

\* f"{end_time - start_time:.1f} segundos"
ProcessingTimes == {<<"0.0", " segundos">>, <<"42.5", " segundos">>}

LaunchDir   == "/srv/frontend"
ProjectRoot == "/srv/agentflow"

Unset    == "<unset>"
NoResult == [falsy |-> TRUE, attrs |-> EmptyDict, text |-> <<>>, str_raises |-> FALSE, unset |-> TRUE]
NoRecord == [none |-> TRUE]
NoCall   == [valid |-> FALSE]
NoExtract == [op |-> "none"]

-----------------------------------------------------------------------------
(* __init__ / _initialize_components *)

NoAnalyzer == [loaded |-> FALSE]

NewAnalyzer == [loaded |-> TRUE, company_data |-> EmptyDict, analysis_type |-> T_market,
                language |-> <<"es">>]

InitOutcomes == {"real", "import_error", "error"}

\* InitializeComponents leaving the connector not loaded after a general exception
InitializeComponents_NotLoaded(outcome) ==
    IF outcome = "real"
    THEN [components_loaded |-> TRUE, crewai_real |-> TRUE, analyzer |-> NewAnalyzer]
    ELSE IF outcome = "import_error"
    THEN [components_loaded |-> TRUE, crewai_real |-> FALSE, analyzer |-> NoAnalyzer]
    ELSE [components_loaded |-> FALSE, crewai_real |-> FALSE, analyzer |-> NoAnalyzer]

\* the connector's fields after _initialize_components, by what happened in it:
\* the engine imported ("real"), its import failed, or another exception was raised
InitializeComponents(outcome) ==
    IF outcome = "real"
    THEN [components_loaded |-> TRUE, crewai_real |-> TRUE, analyzer |-> NewAnalyzer]
    ELSE IF outcome = "import_error"
    THEN [components_loaded |-> TRUE, crewai_real |-> FALSE, analyzer |-> NoAnalyzer]
    ELSE [components_loaded |-> TRUE, crewai_real |-> FALSE, analyzer |-> NoAnalyzer]

\* is_system_ready
IsSystemReady(s) == components_loaded[s]

\* no analyze_company call has started
NoCallsYet ==
    /\ pc = [s \in Sessions |-> "idle"]
    /\ request = [s \in Sessions |-> NotADict]
    /\ request_in = [s \in Sessions |-> NotADict]
    /\ analysis_config = [s \in Sessions |-> EmptyDict]
    /\ original_dir = [s \in Sessions |-> Unset]
    /\ resultado = [s \in Sessions |-> NoResult]
    /\ returned = [s \in Sessions |-> NoRecord]
    /\ exc = [s \in Sessions |-> "none"]
    /\ engine_outcome = [s \in Sessions |-> "not_invoked"]
    /\ engine_calls = [s \in Sessions |-> 0]
    /\ sim_calls = [s \in Sessions |-> 0]
    /\ returns = [s \in Sessions |-> 0]
    /\ prev = [s \in Sessions |-> NoCall]
    /\ calls = [s \in Sessions |-> 0]

\* a browser session that has not yet used the application, and an empty
\* results directory
FrontendNotStarted ==
    /\ session_state = EmptyDict
    /\ script = "page"
    /\ app_resultado = NoRecord
    /\ keys_to_clear = <<>>
    /\ last_analysis = "none"
    /\ had_success = FALSE
    /\ resultados_dir = {}
    /\ pdf_created = 0
    /\ armed_by = EmptyDict
    /\ removed = NoRecord

Init ==
    /\ \E o \in [Sessions -> InitOutcomes] :
         /\ components_loaded = [s \in Sessions |-> InitializeComponents(o[s]).components_loaded]
         /\ crewai_real = [s \in Sessions |-> InitializeComponents(o[s]).crewai_real]
         /\ analyzer = [s \in Sessions |-> InitializeComponents(o[s]).analyzer]
    /\ cwd \in {LaunchDir, ProjectRoot}
    /\ cwd_before = cwd
    /\ NoCallsYet
    /\ extract_input = PyNone
    /\ crew_result = NoResult
    /\ extracted = NoExtract
    /\ FrontendNotStarted
    /\ backend_available = TRUE

connector == <<components_loaded, crewai_real>>
history   == <<prev, calls, request_in, cwd_before>>
extractor == <<extract_input, crew_result, extracted>>
frontend  == <<session_state, script, app_resultado, keys_to_clear, backend_available,
               last_analysis, had_success, resultados_dir, pdf_created, armed_by, removed>>

-----------------------------------------------------------------------------
(* analyze_company, statement by statement *)

\* a caller invokes analyze_company(r)
Call(s, r) ==
    /\ pc[s] = "idle"
    /\ calls[s] < MaxCalls
    /\ calls' = [calls EXCEPT ![s] = @ + 1]
    /\ pc' = [pc EXCEPT ![s] = "check_ready"]
    /\ request' = [request EXCEPT ![s] = r]
    /\ request_in' = [request_in EXCEPT ![s] = r]
    /\ analysis_config' = [analysis_config EXCEPT ![s] = EmptyDict]
    /\ original_dir' = [original_dir EXCEPT ![s] = Unset]
    /\ resultado' = [resultado EXCEPT ![s] = NoResult]
    /\ returned' = [returned EXCEPT ![s] = NoRecord]
    /\ exc' = [exc EXCEPT ![s] = "none"]
    /\ engine_outcome' = [engine_outcome EXCEPT ![s] = "not_invoked"]
    /\ engine_calls' = [engine_calls EXCEPT ![s] = 0]
    /\ sim_calls' = [sim_calls EXCEPT ![s] = 0]
    /\ returns' = [returns EXCEPT ![s] = 0]
    /\ cwd_before' = IF \A t \in Sessions : pc[t] \in {"idle", "done"} THEN cwd ELSE cwd_before
    /\ UNCHANGED <<frontend, extractor, connector, analyzer, cwd, prev>>

\* lines 192-197
CheckReady(s) ==
    /\ pc[s] = "check_ready"
    /\ pc' = [pc EXCEPT ![s] = IF IsSystemReady(s) THEN "build_config" ELSE "done"]
    /\ returned' = [returned EXCEPT ![s] =
                       IF IsSystemReady(s) THEN @ ELSE NotReadyRecord(components_loaded[s])]
    /\ returns' = [returns EXCEPT ![s] = IF IsSystemReady(s) THEN @ ELSE @ + 1]
    /\ UNCHANGED <<frontend, extractor, connector, analyzer, cwd, request, analysis_config, original_dir,
                   resultado, exc, engine_outcome, engine_calls, sim_calls, history>>

\* BuildConfig writing the default language back into the request (setdefault)
BuildConfig_FillsRequest(s) ==
    /\ pc[s] = "build_config"
    /\ LET built == BuildAnalysisConfig(request[s]) IN
         /\ pc' = [pc EXCEPT ![s] = IF built.ok THEN "dispatch" ELSE OuterExcept]
         /\ analysis_config' = [analysis_config EXCEPT ![s] = IF built.ok THEN built.value ELSE @]
         /\ exc' = [exc EXCEPT ![s] = IF built.ok THEN @ ELSE built.exc]
         /\ request' = [request EXCEPT ![s] =
                           IF built.ok THEN [@ EXCEPT !.top = @ @@ [language |-> <<"es">>]] ELSE @]
    /\ UNCHANGED <<frontend, extractor, connector, analyzer, cwd, original_dir, resultado, returned,
                   engine_outcome, engine_calls, sim_calls, returns, history>>

\* lines 202-228
BuildConfig(s) ==
    /\ pc[s] = "build_config"
    /\ LET built == BuildAnalysisConfig(request[s]) IN
         /\ pc' = [pc EXCEPT ![s] = IF built.ok THEN "dispatch" ELSE OuterExcept]
         /\ analysis_config' = [analysis_config EXCEPT ![s] = IF built.ok THEN built.value ELSE @]
         /\ exc' = [exc EXCEPT ![s] = IF built.ok THEN @ ELSE built.exc]
    /\ UNCHANGED <<frontend, extractor, connector, analyzer, cwd, request, original_dir, resultado, returned,
                   engine_outcome, engine_calls, sim_calls, returns, history>>

\* line 231
Dispatch(s) ==
    /\ pc[s] = "dispatch"
    /\ pc' = [pc EXCEPT ![s] = IF crewai_real[s] /\ analyzer[s].loaded
                               THEN "save_cwd" ELSE "simulate"]
    /\ UNCHANGED <<frontend, extractor, connector, analyzer, cwd, request, analysis_config, original_dir,
                   resultado, returned, exc, engine_outcome, engine_calls, sim_calls,
                   returns, history>>

\* line 236
SaveCwd(s) ==
    /\ pc[s] = "save_cwd"
    /\ original_dir' = [original_dir EXCEPT ![s] = cwd]
    /\ pc' = [pc EXCEPT ![s] = "chdir"]
    /\ UNCHANGED <<frontend, extractor, connector, analyzer, cwd, request, analysis_config, resultado, returned,
                   exc, engine_outcome, engine_calls, sim_calls, returns, history>>

\* lines 237-238
ChdirProject(s) ==
    /\ pc[s] = "chdir"
    /\ cwd' = ProjectRoot
    /\ pc' = [pc EXCEPT ![s] = "configure"]
    /\ UNCHANGED <<frontend, extractor, connector, analyzer, request, analysis_config, original_dir, resultado,
                   returned, exc, engine_outcome, engine_calls, sim_calls, returns, history>>

\* lines 242-249: the engine object is configured; looking up its template for
\* the analysis type raises KeyError when the engine has none
Configure(s) ==
    /\ pc[s] = "configure"
    /\ analyzer' = [analyzer EXCEPT ![s] =
                       [loaded |-> TRUE,
                        company_data |-> analysis_config[s],
                        analysis_type |-> analysis_config[s]["analysis_type"],
                        language |-> analysis_config[s]["language"]]]
    /\ \E has_template \in BOOLEAN :
         /\ pc' = [pc EXCEPT ![s] = IF has_template THEN "execute" ELSE "handler"]
         /\ exc' = [exc EXCEPT ![s] = IF has_template THEN @ ELSE "KeyError"]
         /\ engine_outcome' = [engine_outcome EXCEPT ![s] =
                                  IF has_template THEN @ ELSE "template_error"]
    /\ UNCHANGED <<frontend, extractor, connector, cwd, request, analysis_config, original_dir, resultado,
                   returned, engine_calls, sim_calls, returns, history>>

\* line 253: execute_analysis raises
ExecuteRaises(s) ==
    /\ pc[s] = "execute"
    /\ engine_calls' = [engine_calls EXCEPT ![s] = @ + 1]
    /\ engine_outcome' = [engine_outcome EXCEPT ![s] = "raised"]
    /\ exc' = [exc EXCEPT ![s] = "EngineError"]
    /\ pc' = [pc EXCEPT ![s] = "handler"]
    /\ UNCHANGED <<frontend, extractor, connector, analyzer, cwd, request, analysis_config, original_dir,
                   resultado, returned, sim_calls, returns, history>>

\* line 253: execute_analysis returns
ExecuteReturns(s) ==
    /\ pc[s] = "execute"
    /\ engine_calls' = [engine_calls EXCEPT ![s] = @ + 1]
    /\ \E res \in EngineResults : resultado' = [resultado EXCEPT ![s] = res]
    /\ pc' = [pc EXCEPT ![s] = "restore"]
    /\ UNCHANGED <<frontend, extractor, connector, analyzer, cwd, request, analysis_config, original_dir,
                   returned, exc, engine_outcome, sim_calls, returns, history>>

\* line 257
RestoreCwd(s) ==
    /\ pc[s] = "restore"
    /\ cwd' = original_dir[s]
    /\ pc' = [pc EXCEPT ![s] = "check_result"]
    /\ UNCHANGED <<frontend, extractor, connector, analyzer, request, analysis_config, original_dir, resultado,
                   returned, exc, engine_outcome, engine_calls, sim_calls, returns, history>>

\* line 262
CheckResult(s) ==
    /\ pc[s] = "check_result"
    /\ pc' = [pc EXCEPT ![s] = IF resultado[s].falsy THEN "empty_result" ELSE "process"]
    /\ engine_outcome' = [engine_outcome EXCEPT ![s] =
                             IF resultado[s].falsy THEN "empty" ELSE "returned"]
    /\ UNCHANGED <<frontend, extractor, connector, analyzer, cwd, request, analysis_config, original_dir,
                   resultado, returned, exc, engine_calls, sim_calls, returns, history>>

\* lines 263-277: str(resultado) may raise while the record is built
ProcessResult(s) ==
    /\ pc[s] = "process"
    /\ \E processing_time \in ProcessingTimes :
         IF resultado[s].str_raises
         THEN /\ pc' = [pc EXCEPT ![s] = "handler"]
              /\ exc' = [exc EXCEPT ![s] = "ResultError"]
              /\ engine_outcome' = [engine_outcome EXCEPT ![s] = "result_error"]
              /\ UNCHANGED <<returned, returns>>
         ELSE /\ pc' = [pc EXCEPT ![s] = "done"]
              /\ returned' = [returned EXCEPT ![s] =
                                 RealRecord(resultado[s], analysis_config[s], processing_time)]
              /\ returns' = [returns EXCEPT ![s] = @ + 1]
              /\ UNCHANGED <<exc, engine_outcome>>
    /\ UNCHANGED <<frontend, extractor, connector, analyzer, cwd, request, analysis_config, original_dir,
                   resultado, engine_calls, sim_calls, history>>

\* EmptyResult advancing to the simulation, as the exception handler does
EmptyResult_Simulates(s) ==
    /\ pc[s] = "empty_result"
    /\ cwd' = original_dir[s]
    /\ pc' = [pc EXCEPT ![s] = "simulate"]
    /\ UNCHANGED <<frontend, extractor, connector, analyzer, request, analysis_config, original_dir, resultado,
                   returned, returns, exc, engine_outcome, engine_calls, sim_calls, history>>

\* lines 278-282
EmptyResult(s) ==
    /\ pc[s] = "empty_result"
    /\ cwd' = original_dir[s]
    /\ returned' = [returned EXCEPT ![s] =
                       CreateFallbackResult(request[s].top, <<"Resultado vacío de CrewAI">>)]
    /\ returns' = [returns EXCEPT ![s] = @ + 1]
    /\ pc' = [pc EXCEPT ![s] = "done"]
    /\ UNCHANGED <<frontend, extractor, connector, analyzer, request, analysis_config, original_dir, resultado,
                   exc, engine_outcome, engine_calls, sim_calls, history>>

\* Handler trying the engine once more
Handler_Retries(s) ==
    /\ pc[s] = "handler"
    /\ cwd' = IF original_dir[s] # Unset THEN original_dir[s] ELSE cwd
    /\ pc' = [pc EXCEPT ![s] = "execute"]
    /\ UNCHANGED <<frontend, extractor, connector, analyzer, request, analysis_config, original_dir, resultado,
                   returned, exc, engine_outcome, engine_calls, sim_calls, returns, history>>

\* Handler returning the fallback record instead of the simulation
Handler_ReturnsFallback(s) ==
    /\ pc[s] = "handler"
    /\ cwd' = IF original_dir[s] # Unset THEN original_dir[s] ELSE cwd
    /\ pc' = [pc EXCEPT ![s] = "empty_result"]
    /\ UNCHANGED <<frontend, extractor, connector, analyzer, request, analysis_config, original_dir, resultado,
                   returned, exc, engine_outcome, engine_calls, sim_calls, returns, history>>

\* Handler going on to the simulation without restoring the directory
Handler_LeavesCwd(s) ==
    /\ pc[s] = "handler"
    /\ pc' = [pc EXCEPT ![s] = "simulate"]
    /\ UNCHANGED <<frontend, extractor, connector, analyzer, cwd, request, analysis_config, original_dir,
                   resultado, returned, exc, engine_outcome, engine_calls, sim_calls, returns,
                   history>>

\* lines 284-292: the handler of the inner try restores the directory
Handler(s) ==
    /\ pc[s] = "handler"
    /\ cwd' = IF original_dir[s] # Unset THEN original_dir[s] ELSE cwd
    /\ pc' = [pc EXCEPT ![s] = "simulate"]
    /\ UNCHANGED <<frontend, extractor, connector, analyzer, request, analysis_config, original_dir, resultado,
                   returned, exc, engine_outcome, engine_calls, sim_calls, returns, history>>

\* Simulate with a score that drifts from one call to the next
Simulate_Drifts(s) ==
    /\ pc[s] = "simulate"
    /\ sim_calls' = [sim_calls EXCEPT ![s] = @ + 1]
    /\ LET sim == CreateIntelligentSimulation(request[s].top) IN
         /\ pc' = [pc EXCEPT ![s] = IF sim.ok THEN "done" ELSE OuterExcept]
         /\ returned' = [returned EXCEPT ![s] =
                IF sim.ok
                THEN [sim.value EXCEPT !.analysis.metrics.overall_score = @ - calls[s]]
                ELSE @]
         /\ returns' = [returns EXCEPT ![s] = IF sim.ok THEN @ + 1 ELSE @]
         /\ exc' = [exc EXCEPT ![s] = IF sim.ok THEN @ ELSE sim.exc]
    /\ UNCHANGED <<frontend, extractor, connector, analyzer, cwd, request, analysis_config, original_dir,
                   resultado, engine_outcome, engine_calls, history>>

\* lines 293 and 296: return self._create_intelligent_simulation(company_data)
Simulate(s) ==
    /\ pc[s] = "simulate"
    /\ sim_calls' = [sim_calls EXCEPT ![s] = @ + 1]
    /\ LET sim == CreateIntelligentSimulation(request[s].top) IN
         /\ pc' = [pc EXCEPT ![s] = IF sim.ok THEN "done" ELSE OuterExcept]
         /\ returned' = [returned EXCEPT ![s] = IF sim.ok THEN sim.value ELSE @]
         /\ returns' = [returns EXCEPT ![s] = IF sim.ok THEN @ + 1 ELSE @]
         /\ exc' = [exc EXCEPT ![s] = IF sim.ok THEN @ ELSE sim.exc]
    /\ UNCHANGED <<frontend, extractor, connector, analyzer, cwd, request, analysis_config, original_dir,
                   resultado, engine_outcome, engine_calls, history>>

\* lines 298-304
GeneralError(s) ==
    /\ pc[s] = "general_error"
    /\ returned' = [returned EXCEPT ![s] = ErrorRecord(exc[s], request[s])]
    /\ returns' = [returns EXCEPT ![s] = @ + 1]
    /\ pc' = [pc EXCEPT ![s] = "done"]
    /\ UNCHANGED <<frontend, extractor, connector, analyzer, cwd, request, analysis_config, original_dir,
                   resultado, exc, engine_outcome, engine_calls, sim_calls, history>>

\* the caller takes the record; the call is over
ReturnToCaller(s) ==
    /\ pc[s] = "done"
    /\ pc' = [pc EXCEPT ![s] = "idle"]
    /\ prev' = [prev EXCEPT ![s] = [valid |-> TRUE, request |-> request_in[s],
                                    outcome |-> engine_outcome[s], record |-> returned[s]]]
    /\ UNCHANGED <<frontend, extractor, connector, analyzer, cwd, request, request_in, analysis_config,
                   original_dir, resultado, returned, exc, engine_outcome, engine_calls,
                   sim_calls, returns, calls, cwd_before>>

\* one statement of the analyze_company call of session s
Step(s) ==
    \/ CheckReady(s)
    \/ BuildConfig(s)
    \/ Dispatch(s)
    \/ SaveCwd(s)
    \/ ChdirProject(s)
    \/ Configure(s)
    \/ ExecuteRaises(s)
    \/ ExecuteReturns(s)
    \/ RestoreCwd(s)
    \/ CheckResult(s)
    \/ ProcessResult(s)
    \/ EmptyResult(s)
    \/ Handler(s)
    \/ Simulate(s)
    \/ GeneralError(s)

\* one session, calling analyze_company again and again
Next ==
    \/ \E r \in Requests : Call(1, r)
    \/ Step(1)
    \/ ReturnToCaller(1)

Spec == Init /\ [][Next]_vars

-----------------------------------------------------------------------------
(* Two sessions of one process, each calling analyze_company once; the
   statements of the two calls interleave, and the working directory is the
   one of the process. *)

NextConcurrent ==
    \E s \in Sessions :
        \/ \E r \in {FlatRequest([name |-> N_Acme, industry |-> I_Retail, location |-> L_Lima]),
                      NotADict} :
              calls[s] = 0 /\ Call(s, r)
        \/ Step(s)
        \/ ReturnToCaller(s)

SpecConcurrent == Init /\ [][NextConcurrent]_vars

-----------------------------------------------------------------------------
(* The extractors and _process_crewai_result called on their own.  The texts  *)
(* are built from the words the extractors look for, joined by blanks, and    *)
(* from lines of the kinds _extract_recommendations tells apart, joined by    *)
(* newlines.                                                                  *)

\* words of a text given to the extractors
MaxWords == 3
\* lines of a text given to the extractors
MaxLines == 3

RECURSIVE Join(_, _)
\* sep.join(parts)
Join(parts, sep) ==
    IF parts = <<>> THEN <<>>
    ELSE IF Len(parts) = 1 THEN parts[1]
    ELSE parts[1] \o <<sep>> \o Join(Tail(parts), sep)

\* the sequences of 1 to n elements of S
SeqsUpTo(S, n) == UNION {[1..k -> S] : k \in 1..n}

\* the vocabulary of _extract_risk_level and _extract_growth_potential, a word
\* outside it and the empty word
Words == {
    <<"a", "m", "e", "n", "a", "z", "a">>,
    <<"R", "i", "e", "s", "g", "o">>,
    <<"d", "e", "s", "a", "f", "í", "o">>,
    <<"c", "o", "m", "p", "e", "t", "e", "n", "c", "i", "a", " ", "i", "n", "t", "e", "n", "s", "a">>,
    <<"c", "a", "m", "b", "i", "o", "s", " ", "r", "e", "g", "u", "l", "a", "t", "o", "r", "i", "o", "s">>,
    <<"O", "p", "o", "r", "t", "u", "n", "i", "d", "a", "d", "e", "s">>,
    <<"I", "n", "f", "o", "r", "m", "e">>,
    <<"e", "x", "p", "a", "n", "s", "i", "ó", "n">>,
    <<"g", "r", "a", "n", " ", "p", "o", "t", "e", "n", "c", "i", "a", "l">>,
    <<>>
}

L_Header == <<"R", "e", "c", "o", "m", "e", "n", "d", "a", "c", "i", "o", "n", "e", "s", " ", "E", "s", "t", "r", "a", "t", "é", "g", "i", "c", "a", "s", ":">>
L_DoX == <<"1", ".", " ", "D", "o", " ", "X">>
L_DoY == <<"2", ".", " ", "D", "o", " ", "Y">>
L_Ampliar == <<"1", ".", " ", "A", "m", "p", "l", "i", "a", "r", " ", "l", "a", " ", "r", "e", "d", " ", "d", "e", " ", "t", "i", "e", "n", "d", "a", "s", " ", "p", "r", "o", "p", "i", "a", "s">>
L_Renovar == <<"2", ".", " ", "R", "e", "n", "o", "v", "a", "r", " ", "e", "l", " ", "c", "a", "t", "á", "l", "o", "g", "o", " ", "d", "e", " ", "p", "r", "o", "d", "u", "c", "t", "o", "s">>
L_Mantener == <<"-", " ", "M", "a", "n", "t", "e", "n", "e", "r", " ", "p", "r", "e", "c", "i", "o", "s", " ", "c", "o", "m", "p", "e", "t", "i", "t", "i", "v", "o", "s", " ", "e", "n", " ", "l", "a", " ", "r", "e", "g", "i", "ó", "n">>
L_HeaderLong == <<"R", "e", "c", "o", "m", "e", "n", "d", "a", "c", "i", "o", "n", "e", "s", " ", "e", "s", "t", "r", "a", "t", "é", "g", "i", "c", "a", "s", " ", "a", "d", "i", "c", "i", "o", "n", "a", "l", "e", "s", " ", "p", "a", "r", "a", " ", "e", "l", " ", "s", "e", "g", "u", "n", "d", "o", " ", "s", "e", "m", "e", "s", "t", "r", "e">>
L_Conclusiones == <<"C", "o", "n", "c", "l", "u", "s", "i", "o", "n", "e", "s", " ", "g", "e", "n", "e", "r", "a", "l", "e", "s", " ", "d", "e", "l", " ", "i", "n", "f", "o", "r", "m", "e", " ", "p", "a", "r", "a", " ", "l", "a", " ", "d", "i", "r", "e", "c", "c", "i", "ó", "n", " ", "d", "e", " ", "l", "a", " ", "e", "m", "p", "r", "e", "s", "a">>

\* the kinds of line _extract_recommendations tells apart: the section header, list
\* items of at most 20 and of more than 20 characters, a line with an action keyword,
\* a line of more than 50 characters that ends the section, a line of more than 50
\* characters that holds the header phrase, and the empty line
Lines == {L_Header, L_DoX, L_DoY, L_Ampliar, L_Renovar, L_Mantener, L_Conclusiones,
          L_HeaderLong, <<>>}

\* texts with list items before and after a line of more than 50 characters
SectionTexts == {
    <<L_Header, L_Ampliar, L_Conclusiones, L_Renovar>>,
    <<L_Header, L_Ampliar, L_HeaderLong, L_Renovar>>,
    <<L_Mantener, L_Header, L_DoX, L_Renovar, L_Conclusiones, L_Ampliar>>
}

\* texts with more than five lines that match
ManyLines == {
    <<L_Header, L_Ampliar, L_Renovar, L_Mantener, L_Ampliar, L_Renovar, L_Mantener>>,
    <<L_Mantener, L_Mantener, L_Mantener, L_Mantener, L_Mantener, L_Mantener>>,
    <<L_Ampliar, L_Renovar, L_Ampliar, L_Renovar, L_Ampliar, L_Renovar, L_Ampliar>>
}

WordTexts == {Join(ws, " ") : ws \in SeqsUpTo(Words, MaxWords)}

LineTexts == {Join(ls, "\n") : ls \in SeqsUpTo(Lines, MaxLines) \cup ManyLines \cup SectionTexts}

\* what an extractor may be given: a text or None
TextInputs == WordTexts \cup LineTexts \cup {PyNone}

\* a text of n characters
LongText(n) == [i \in 1..n |-> E_Informe[((i - 1) % Len(E_Informe)) + 1]]

\* the lengths of the texts of the engine results, around the 500 of line 360
SummaryLengths == {0, 24, 499, 500, 501, 600}

\* an engine result that holds the text in its 'raw' attribute, in its 'output'
\* attribute, or is the text itself
CrewResultOf(kind, text) ==
    CASE kind = "raw" ->
           [falsy |-> FALSE, attrs |-> [raw |-> text], text |-> <<"C", "r", "e", "w">>, str_raises |-> FALSE]
      [] kind = "output" ->
           [falsy |-> FALSE, attrs |-> [output |-> text], text |-> <<"C", "r", "e", "w">>, str_raises |-> FALSE]
      [] OTHER ->
           [falsy |-> text = <<>>, attrs |-> EmptyDict, text |-> text, str_raises |-> FALSE]

\* engine results that have both a 'raw' and an 'output' attribute
TwoFieldResults == {
    [falsy |-> FALSE, attrs |-> [raw |-> <<>>, output |-> E_Informe], text |-> <<"C", "r", "e", "w">>, str_raises |-> FALSE],
    [falsy |-> FALSE, attrs |-> [raw |-> <<>>, output |-> <<>>], text |-> <<"C", "r", "e", "w">>, str_raises |-> FALSE],
    [falsy |-> FALSE, attrs |-> [raw |-> E_Riesgo, output |-> E_Informe], text |-> <<"C", "r", "e", "w">>, str_raises |-> FALSE]
}

CrewInputs ==
    {CrewResultOf(kind, LongText(n)) : kind \in {"raw", "output", "str"}, n \in SummaryLengths}
        \cup {CrewResultOf("raw", PyNone)} \cup TwoFieldResults

\* the analysis_config of the request of a flat dict
ExtractConfig == AnalysisConfig(FlatRequest([name |-> N_Acme, industry |-> I_Retail, location |-> L_Lima]))

\* the state of the analyze_company calls
analysis_calls == <<connector, analyzer, cwd, pc, request, analysis_config, original_dir,
                    resultado, returned, exc, engine_outcome, engine_calls, sim_calls,
                    returns, history>>

\* connectors built without the engine, in a process started in LaunchDir
ConnectorWithoutEngine ==
    /\ components_loaded = [s \in Sessions |-> InitializeComponents("import_error").components_loaded]
    /\ crewai_real = [s \in Sessions |-> InitializeComponents("import_error").crewai_real]
    /\ analyzer = [s \in Sessions |-> InitializeComponents("import_error").analyzer]
    /\ cwd = LaunchDir
    /\ cwd_before = LaunchDir

InitExtract ==
    /\ ConnectorWithoutEngine
    /\ NoCallsYet
    /\ FrontendNotStarted
    /\ backend_available = TRUE
    /\ extracted = NoExtract
    /\ \/ extract_input \in TextInputs /\ crew_result = NoResult
       \/ extract_input = PyNone /\ crew_result \in CrewInputs

\* self._extract_risk_level(result_text)
CallExtractRiskLevel ==
    /\ extracted = NoExtract /\ crew_result = NoResult
    /\ extracted' = [op |-> "risk", value |-> ExtractRiskLevel(extract_input)]
    /\ UNCHANGED <<frontend, analysis_calls, extract_input, crew_result>>

\* self._extract_growth_potential(result_text)
CallExtractGrowthPotential ==
    /\ extracted = NoExtract /\ crew_result = NoResult
    /\ extracted' = [op |-> "growth", value |-> ExtractGrowthPotential(extract_input)]
    /\ UNCHANGED <<frontend, analysis_calls, extract_input, crew_result>>

\* self._extract_recommendations(result_text)
CallExtractRecommendations ==
    /\ extracted = NoExtract /\ crew_result = NoResult
    /\ extracted' = [op |-> "recs", value |-> ExtractRecommendations(extract_input)]
    /\ UNCHANGED <<frontend, analysis_calls, extract_input, crew_result>>

\* self._process_crewai_result(resultado, analysis_config)
CallProcessCrewaiResult ==
    /\ extracted = NoExtract /\ crew_result # NoResult
    /\ extracted' = [op |-> "process", value |-> ProcessCrewaiResult(crew_result, ExtractConfig)]
    /\ UNCHANGED <<frontend, analysis_calls, extract_input, crew_result>>

NextExtract ==
    \/ CallExtractRiskLevel
    \/ CallExtractGrowthPotential
    \/ CallExtractRecommendations
    \/ CallProcessCrewaiResult

SpecExtract == InitExtract /\ [][NextExtract]_vars

-----------------------------------------------------------------------------
(* The analysis page of src/app.py.  The form's widgets are keyed, so their   *)
(* values live in st.session_state; a click runs the script of the page,      *)
(* statement by statement, up to its st.rerun() or its end.                   *)

DictSet(d, key, value) == [k \in DOMAIN d \cup {key} |-> IF k = key THEN value ELSE d[k]]

DictDel(d, key) == [k \in DOMAIN d \ {key} |-> d[k]]

K_nombre      == <<"empresa_nombre">>
K_industria   == <<"empresa_industria">>
K_tipo        == <<"tipo_analisis">>
K_completed   == <<"analysis_completed">>
K_result      == <<"analysis_result">>

Seleccionar   == <<"Seleccionar...">>
Idioma_Es     == <<"U+1F1EA", "U+1F1F8", " Español">>

\* keys_to_clear of limpiar_formulario (lines 93-106): the ten keys of the form,
\* then the two of the results
KeysToClear == <<K_nombre, K_industria, <<"empresa_ubicacion">>, <<"idioma">>, K_tipo,
                 <<"prioridad">>, <<"productos">>, <<"competidores">>, <<"retos">>,
                 <<"objetivos">>, K_completed, K_result>>

\* the defaults limpiar_formulario assigns (lines 112-121), which are also the
\* values the widgets show when their key is absent
FormDefaults ==
    [k \in {KeysToClear[i] : i \in 1 .. 10} |->
        CASE k = K_industria     -> Seleccionar
          [] k = K_tipo          -> Seleccionar
          [] k = <<"idioma">>    -> Idioma_Es
          [] k = <<"prioridad">> -> <<"Estándar">>
          [] OTHER               -> <<>>]

\* the analysis_mapping of ejecutar_analisis_empresarial (lines 426-435): the
\* labels of the 'Tipo de Análisis' widget and the analysis type of each
AnalysisMappingDict == <<
    << <<"U+1F3AF", " Análisis Básico (5-8 min)">>,          T_market >>,
    << <<"U+1F3EA", " Expansión (5-10 min)">>,               T_expansion >>,
    << <<"U+1F4BB", " Digital (7-12 min)">>,                 T_digital >>,
    << <<"U+2699", "U+FE0F", " Operaciones (6-10 min)">>,    T_operations >>,
    << <<"U+1F3AF", " Estratégico (8-15 min)">>,             T_strategic >>,
    << <<"U+1F4B0", " Financiero (5-8 min)">>,               T_financial >>,
    << <<"U+1F4CA", " Mercado (6-12 min)">>,                 T_market >>,
    << <<"U+1F504", " Completo (20-40 min)">>,               T_complete >> >>

\* what the user may enter in the three widgets the validation looks at (of the
\* analysis types: Digital and Completo)
FormChoices ==
    [k \in {K_nombre, K_industria, K_tipo} |->
        CASE k = K_nombre    -> {<<>>, N_Acme}
          [] k = K_industria -> {Seleccionar, I_Retail}
          [] OTHER           -> {Seleccionar, AnalysisMappingDict[3][1], AnalysisMappingDict[8][1]}]

\* the value of the widget with key k
Widget(k) == Get(session_state, k, FormDefaults[k])

\* line 344
FormValid ==
    /\ Truthy(Widget(K_nombre))
    /\ Widget(K_industria) # Seleccionar
    /\ Widget(K_tipo) # Seleccionar

\* line 396: the results are shown
Displayed == Get(session_state, K_completed, FALSE) /\ K_result \in DOMAIN session_state

\* analysis_mapping.get(tipo_analisis, "market") (line 437)
AnalysisMapping(tipo_analisis) ==
    LET hits == {i \in DOMAIN AnalysisMappingDict : AnalysisMappingDict[i][1] = tipo_analisis}
    IN  IF hits = {} THEN T_market ELSE AnalysisMappingDict[CHOOSE i \in hits : TRUE][2]

\* the analysis_config ejecutar_analisis_empresarial passes to analyze_company
\* (lines 415-446); language is "es" if "Español" in idioma else "en", and of
\* the two options of the widget only the Spanish one contains "Español"
EjecutarRequest ==
    NestedRequest(
        [analysis_type |-> AnalysisMapping(Widget(K_tipo)),
         language |-> IF Widget(<<"idioma">>) = Idioma_Es THEN <<"es">> ELSE <<"en">>,
         priority |-> Widget(<<"prioridad">>)],
        [nombre |-> Widget(K_nombre),
         industria |-> Widget(K_industria),
         ubicacion |-> Widget(<<"empresa_ubicacion">>),
         productos_servicios |-> Widget(<<"productos">>),
         competencia_principal |-> Widget(<<"competidores">>),
         retos |-> Widget(<<"retos">>),
         objetivos |-> Widget(<<"objetivos">>)])

\* the records analyze_company may return for a request of the application: a
\* dict with a nested company_data dict never takes the error paths
AnalyzeCompanyReturns(req) ==
    {CreateIntelligentSimulation(req.top).value}
    \cup {CreateFallbackResult(req.top, <<"Resultado vacío de CrewAI">>)}
    \cup {RealRecord(res, AnalysisConfig(req), t) :
              res \in {r \in EngineResults : ~r.falsy /\ ~r.str_raises}, t \in ProcessingTimes}

\* the user edits a widget of the form: Streamlit stores the value under the
\* widget's key and runs the script, which draws the page again
EditForm ==
    /\ script = "page"
    /\ \E k \in DOMAIN FormChoices : \E v \in FormChoices[k] :
         session_state' = DictSet(session_state, k, v)
    /\ UNCHANGED <<script, app_resultado, keys_to_clear, backend_available, last_analysis,
                   had_success, resultados_dir, pdf_created, armed_by, removed, analysis_calls,
                   extractor>>

\* line 374: the button, drawn when the form is valid, is clicked
ClickEjecutar ==
    /\ script = "page"
    /\ FormValid
    /\ script' = "clear_completed"
    /\ last_analysis' = "running"
    /\ UNCHANGED <<session_state, app_resultado, keys_to_clear, backend_available, had_success,
                   resultados_dir, pdf_created, armed_by, removed, analysis_calls, extractor>>

\* lines 376-377
ClearCompleted ==
    /\ script = "clear_completed"
    /\ session_state' = DictDel(session_state, K_completed)
    /\ script' = "clear_result"
    /\ UNCHANGED <<app_resultado, keys_to_clear, backend_available, last_analysis, had_success,
                   resultados_dir, pdf_created, armed_by, removed, analysis_calls, extractor>>

\* ClearResult leaving the stored result in place
ClearResult_KeepsResult ==
    /\ script = "clear_result"
    /\ script' = "ejecutar"
    /\ UNCHANGED <<session_state, app_resultado, keys_to_clear, backend_available,
                   last_analysis, had_success, resultados_dir, pdf_created, armed_by, removed,
                   analysis_calls, extractor>>

\* lines 378-379
ClearResult ==
    /\ script = "clear_result"
    /\ session_state' = DictDel(session_state, K_result)
    /\ script' = "ejecutar"
    /\ UNCHANGED <<app_resultado, keys_to_clear, backend_available, last_analysis, had_success,
                   resultados_dir, pdf_created, armed_by, removed, analysis_calls, extractor>>

\* lines 404-450 and 461-462: without the backend the function reports and
\* returns; BackendConnector() raises when the project has no 'tools' folder
\* (backend_connector.py lines 25-26) and the handler reports; otherwise
\* analyze_company returns a record
EjecutarAnalisis ==
    /\ script = "ejecutar"
    /\ \/ /\ ~backend_available
          /\ script' = "page"
          /\ last_analysis' = "failure"
          /\ UNCHANGED app_resultado
       \/ /\ backend_available
          /\ script' = "page"
          /\ last_analysis' = "failure"
          /\ UNCHANGED app_resultado
       \/ /\ backend_available
          /\ \E rec \in AnalyzeCompanyReturns(EjecutarRequest) : app_resultado' = rec
          /\ script' = "check"
          /\ UNCHANGED last_analysis
    /\ UNCHANGED <<session_state, keys_to_clear, backend_available, had_success, resultados_dir,
                   pdf_created, armed_by, removed, analysis_calls, extractor>>

\* lines 452 and 458-459
CheckSuccess ==
    /\ script = "check"
    /\ IF app_resultado.success
       THEN script' = "store_result" /\ UNCHANGED last_analysis
       ELSE script' = "page" /\ last_analysis' = "failure"
    /\ UNCHANGED <<session_state, app_resultado, keys_to_clear, backend_available, had_success,
                   resultados_dir, pdf_created, armed_by, removed, analysis_calls, extractor>>

\* line 455
StoreResult ==
    /\ script = "store_result"
    /\ session_state' = DictSet(session_state, K_result, app_resultado)
    /\ script' = "store_completed"
    /\ UNCHANGED <<app_resultado, keys_to_clear, backend_available, last_analysis, had_success,
                   resultados_dir, pdf_created, armed_by, removed, analysis_calls, extractor>>

\* lines 456-457
StoreCompleted ==
    /\ script = "store_completed"
    /\ session_state' = DictSet(session_state, K_completed, TRUE)
    /\ script' = "page"
    /\ last_analysis' = "success"
    /\ had_success' = TRUE
    /\ UNCHANGED <<app_resultado, keys_to_clear, backend_available, resultados_dir, pdf_created,
                   armed_by, removed, analysis_calls, extractor>>

\* lines 583-585: the button below the results calls limpiar_formulario
ClickRealizarNuevo ==
    /\ script = "page"
    /\ Displayed
    /\ script' = "limpiar"
    /\ keys_to_clear' = KeysToClear
    /\ UNCHANGED <<session_state, app_resultado, backend_available, last_analysis, had_success,
                   resultados_dir, pdf_created, armed_by, removed, analysis_calls, extractor>>

\* lines 107-109: one turn of the loop
LimpiarClearKey ==
    /\ script = "limpiar"
    /\ keys_to_clear # <<>>
    /\ session_state' = DictDel(session_state, Head(keys_to_clear))
    /\ keys_to_clear' = Tail(keys_to_clear)
    /\ UNCHANGED <<script, app_resultado, backend_available, last_analysis, had_success,
                   resultados_dir, pdf_created, armed_by, removed, analysis_calls, extractor>>

\* lines 112-125: the defaults are assigned and the page is run again, unless
\* Streamlit refuses to assign to the key of a widget this run has already drawn
\* and the run ends there
LimpiarDefaults ==
    /\ script = "limpiar"
    /\ keys_to_clear = <<>>
    /\ \E refused \in BOOLEAN :
         session_state' = IF refused THEN session_state
                          ELSE [k \in DOMAIN session_state \cup DOMAIN FormDefaults |->
                                   IF k \in DOMAIN FormDefaults THEN FormDefaults[k]
                                   ELSE session_state[k]]
    /\ script' = "page"
    /\ UNCHANGED <<app_resultado, keys_to_clear, backend_available, last_analysis, had_success,
                   resultados_dir, pdf_created, armed_by, removed, analysis_calls, extractor>>

\* a new browser session; the import of the backend connector at the top of
\* app.py (lines 39-45) has succeeded or failed
InitFrontend ==
    /\ ConnectorWithoutEngine
    /\ NoCallsYet
    /\ extract_input = PyNone
    /\ crew_result = NoResult
    /\ extracted = NoExtract
    /\ FrontendNotStarted
    /\ backend_available \in BOOLEAN

NextAnalysisPage ==
    \/ EditForm
    \/ ClickEjecutar
    \/ ClearCompleted
    \/ ClearResult
    \/ EjecutarAnalisis
    \/ CheckSuccess
    \/ StoreResult
    \/ StoreCompleted
    \/ ClickRealizarNuevo
    \/ LimpiarClearKey
    \/ LimpiarDefaults

SpecAnalysisPage == InitFrontend /\ [][NextAnalysisPage]_vars

-----------------------------------------------------------------------------
(* The history page of src/app.py.  A PDF is named by its modification time,  *)
(* which is also the order in which the PDFs were written.  Every click runs  *)
(* the script of the page, which lists the directory again.                   *)

\* PDFs the session writes
MaxPdfs == 3

\* sort(key=mtime, reverse=True)
RECURSIVE SortedNewestFirst(_)
SortedNewestFirst(S) ==
    IF S = {} THEN <<>>
    ELSE LET newest == CHOOSE x \in S : \A y \in S : y <= x
         IN  <<newest>> \o SortedNewestFirst(S \ {newest})

\* lines 1282 and 1312: the PDFs of the directory, most recent first
PdfFiles == SortedNewestFirst(resultados_dir)

\* the pdf_file that enumerate(pdf_files) gives with the index i (from 0)
PdfAt(i) == PdfFiles[i + 1]

\* f"delete_confirm_{i}" (line 1397)
DeleteKey(i) == <<"delete_confirm_", ToString(i)>>

\* app.py lines 548-564: showing the results of an analysis writes a PDF, named
\* by the time, into the directory
NewPdf ==
    /\ pdf_created < MaxPdfs
    /\ pdf_created' = pdf_created + 1
    /\ resultados_dir' = resultados_dir \cup {pdf_created + 1}
    /\ UNCHANGED <<session_state, armed_by, removed, script, app_resultado, keys_to_clear,
                   backend_available, last_analysis, had_success, analysis_calls, extractor>>

\* lines 1399-1400
ClickEliminar(i) ==
    /\ i < Len(PdfFiles)
    /\ session_state' = DictSet(session_state, DeleteKey(i), TRUE)
    /\ armed_by' = DictSet(armed_by, i, PdfAt(i))
    /\ UNCHANGED <<resultados_dir, pdf_created, removed, script, app_resultado, keys_to_clear,
                   backend_available, last_analysis, had_success, analysis_calls, extractor>>

\* lines 1403-1418: the button is drawn while the flag of the index is set;
\* unlink may raise, and then the flag stays
ClickSiEliminar(i) ==
    /\ i < Len(PdfFiles)
    /\ Get(session_state, DeleteKey(i), FALSE)
    /\ \E unlinked \in BOOLEAN :
         IF unlinked
         THEN /\ resultados_dir' = resultados_dir \ {PdfAt(i)}
              /\ session_state' = DictDel(session_state, DeleteKey(i))
              /\ removed' = [file |-> PdfAt(i), index |-> i, armed_by |-> armed_by[i]]
              /\ armed_by' = DictDel(armed_by, i)
         ELSE UNCHANGED <<resultados_dir, session_state, removed, armed_by>>
    /\ UNCHANGED <<pdf_created, script, app_resultado, keys_to_clear, backend_available,
                   last_analysis, had_success, analysis_calls, extractor>>

\* lines 1420-1425
ClickCancelar(i) ==
    /\ i < Len(PdfFiles)
    /\ Get(session_state, DeleteKey(i), FALSE)
    /\ session_state' = DictDel(session_state, DeleteKey(i))
    /\ armed_by' = DictDel(armed_by, i)
    /\ UNCHANGED <<resultados_dir, pdf_created, removed, script, app_resultado, keys_to_clear,
                   backend_available, last_analysis, had_success, analysis_calls, extractor>>

NextHistoryPage ==
    \/ NewPdf
    \/ \E i \in 0 .. (MaxPdfs - 1) : ClickEliminar(i) \/ ClickSiEliminar(i) \/ ClickCancelar(i)

SpecHistoryPage == InitFrontend /\ [][NextHistoryPage]_vars

-----------------------------------------------------------------------------
(* Properties of analyze_company *)

RealSource       == <<"CrewAI Real System">>
FallbackSource   == <<"Sistema de Fallback">>
SimulationSource == <<"AgentFlow Manager FASE 3 (Simulación Inteligente)">>

SourceTags == {RealSource, FallbackSource, SimulationSource}

Done(s) == pc[s] = "done"

HasSource(rec) == "source" \in DOMAIN rec

\* the request names the company, under 'nombre' or under 'name'
HasName(req) == {"nombre", "name"} \cap DOMAIN EmpresaDatos(req) # {}

\* the request is a dict of str fields (its 'company_data', when given, a dict too)
WellFormed(req) ==
    /\ req.is_dict
    /\ req.nested # "nondict"
    /\ Get(req.top, "analysis_type", T_market) # PyNone

\* a well-formed request that carries the required identifying field
ValidRequest(req) == WellFormed(req) /\ HasName(req)

EngineLoaded(s) == crewai_real[s] /\ analyzer[s].loaded

\* the positions of a call from which a statement of analyze_company runs next
Running == {"check_ready", "build_config", "dispatch", "save_cwd", "chdir", "configure",
            "execute", "restore", "check_result", "process", "empty_result", "handler",
            "simulate", "general_error"}

\* C1: analyze_company never lets an exception out: whatever the request and whatever
\* the engine does, a call is always at a statement of analyze_company that runs next
\* or has returned, and what it returns is a record with a 'success' field.
C1_AlwaysReturnsRecord ==
    \A s \in Sessions :
        /\ pc[s] \in Running \cup {"idle", "done"}
        /\ Done(s) => returns[s] = 1 /\ "success" \in DOMAIN returned[s]

C1_Witness ==
    /\ Done(1)
    /\ engine_outcome[1] = "raised"
    /\ request_in[1].is_dict
    /\ "success" \in DOMAIN returned[1]

\* C2: with the engine loaded and execute_analysis raising, a valid request gets the
\* record of the simulation stage: success is True and source is the simulation tag.
C2_RaisingEngineYieldsSimulation ==
    \A s \in Sessions :
        (Done(s) /\ EngineLoaded(s) /\ engine_outcome[s] = "raised" /\ ValidRequest(request_in[s]))
            => /\ sim_calls[s] = 1
               /\ returned[s].success
               /\ HasSource(returned[s])
               /\ returned[s].source = SimulationSource

C2_Witness ==
    /\ Done(1) /\ EngineLoaded(1) /\ engine_outcome[1] = "raised"
    /\ ValidRequest(request_in[1])
    /\ returned[1].success

StageOf(p) ==
    CASE p \in {"idle", "check_ready", "build_config", "dispatch"} -> 0
      [] p \in {"save_cwd", "chdir", "configure", "execute", "restore", "check_result", "process"} -> 1
      [] p = "empty_result" -> 2
      [] p \in {"handler", "simulate"} -> 3
      [] p = "general_error" -> 4
      [] OTHER -> 5

\* C7: within one call the stages are visited in forward order only, execute_analysis
\* is invoked at most once and never again after it failed, and the call ends with
\* exactly one returned record.
C7_StagesOnlyForward ==
    [][\A s \in Sessions :
          /\ pc[s] \notin {"idle", "done"} => StageOf(pc'[s]) >= StageOf(pc[s])
          /\ engine_calls'[s] <= 1
          /\ (pc[s] # "idle" /\ engine_outcome[s] # "not_invoked") => engine_calls'[s] = engine_calls[s]
          /\ returns'[s] <= 1
          /\ pc'[s] = "done" => returns'[s] = 1]_vars

C7_Witness ==
    /\ Done(1)
    /\ engine_calls[1] = 1 /\ engine_outcome[1] = "raised"
    /\ sim_calls[1] = 1
    /\ returns[1] = 1

SourceOf(rec)  == IF HasSource(rec) THEN rec.source ELSE <<>>
RecsOf(rec)    == IF "analysis" \in DOMAIN rec THEN rec.analysis.recommendations ELSE <<>>
MetricsOf(rec) == IF "analysis" \in DOMAIN rec THEN rec.analysis.metrics ELSE EmptyDict

\* the ways the primary engine fails
FailedOutcomes == {"raised", "empty", "template_error", "result_error"}

C9_RequestUnchanged ==
    \A s \in Sessions : request[s] = request_in[s]

C9_Witness ==
    /\ Done(1)
    /\ request_in[1].nested = "dict"
    /\ "language" \notin DOMAIN request_in[1].top
    /\ engine_outcome[1] = "returned"
    /\ returned[1].success

\* the name, industry and location the request carries, as analyze_company reads them
RequestName(req)     == Get(EmpresaDatos(req), "nombre", Get(EmpresaDatos(req), "name", PyNone))
RequestIndustry(req) == Get(EmpresaDatos(req), "industria", Get(EmpresaDatos(req), "industry", PyNone))
RequestLocation(req) == Get(EmpresaDatos(req), "ubicacion", Get(EmpresaDatos(req), "location", PyNone))

\* the pieces of every recommendation of a record
RecPieces(rec) == UNION {Range(rec.analysis.recommendations[i]) :
                            i \in DOMAIN rec.analysis.recommendations}

\* C10: the simulated record of a request that carries a name, an industry and a
\* location, flat or nested under 'company_data', has them in its summary and in its
\* recommendations, and has none of the defaults 'Empresa', 'General', 'Ubicación'.
C10_SimulationSubstitutesRequestFields ==
    \A s \in Sessions :
        (/\ Done(s) /\ ValidRequest(request_in[s])
         /\ RequestIndustry(request_in[s]) # PyNone
         /\ RequestLocation(request_in[s]) # PyNone
         /\ SourceOf(returned[s]) = SimulationSource)
            => LET summary == Range(returned[s].analysis.executive_summary)
                   recs    == RecPieces(returned[s])
               IN  /\ {RequestName(request_in[s])[1], RequestIndustry(request_in[s])[1],
                       RequestLocation(request_in[s])[1]} \subseteq summary
                   /\ {RequestName(request_in[s])[1], RequestIndustry(request_in[s])[1],
                       RequestLocation(request_in[s])[1]} \subseteq recs
                   /\ {"Empresa", "General", "Ubicación"} \cap (summary \cup recs) = {}

\* the fields a canonical result record has
RecordFields   == {"success", "source", "analysis", "estimated_cost", "processing_time"}
AnalysisFields == {"executive_summary", "metrics", "recommendations", "next_steps", "raw_result"}
MetricFields   == {"overall_score", "confidence", "data_quality", "risk_level", "growth_potential"}

FullyPopulated(rec) ==
    /\ RecordFields \subseteq DOMAIN rec
    /\ AnalysisFields \subseteq DOMAIN rec.analysis
    /\ MetricFields \subseteq DOMAIN rec.analysis.metrics

\* C11: every record a stage of analyze_company returns (real engine, fallback or
\* simulation: the records with success True) has success, source, estimated cost and
\* processing time, and an analysis with executive summary, metrics (overall score,
\* confidence, data quality, risk level, growth potential), recommendations, next steps
\* and the raw output.
C11_EveryRecordFullyPopulated ==
    \A s \in Sessions : (Done(s) /\ returned[s].success) => FullyPopulated(returned[s])

RiskLevels      == {<<"Bajo">>, <<"Medio">>, <<"Alto">>}
GrowthPotentials == {<<"Bajo">>, <<"Medio">>, <<"Medio-Alto">>, <<"Alto">>}

\* C12: every record returned with success True has between 1 and 5 recommendations.
C12_RecommendationsBetween1And5 ==
    \A s \in Sessions :
        (Done(s) /\ returned[s].success)
            => /\ Len(returned[s].analysis.recommendations) >= 1
               /\ Len(returned[s].analysis.recommendations) <= 5

\* C13: in every record with an analysis that analyze_company returns, metrics.risk_level
\* is Bajo, Medio or Alto and metrics.growth_potential is Bajo, Medio, Medio-Alto or Alto.
C13_MetricsWithinEnumerations ==
    \A s \in Sessions :
        (Done(s) /\ "analysis" \in DOMAIN returned[s])
            => /\ "risk_level" \in DOMAIN returned[s].analysis.metrics
               /\ returned[s].analysis.metrics.risk_level \in RiskLevels
               /\ "growth_potential" \in DOMAIN returned[s].analysis.metrics
               /\ returned[s].analysis.metrics.growth_potential \in GrowthPotentials

-----------------------------------------------------------------------------
(* Properties of the extractors (specification SpecExtract) *)

\* the number of places of a text at which a word occurs
OccurrencesOf(word, text) ==
    Cardinality({p \in 1..(Len(text) - Len(word) + 1) :
                    \A j \in 1..Len(word) : text[p + j - 1] = word[j]})

ThreatWords == {
    <<"a", "m", "e", "n", "a", "z", "a">>,
    <<"r", "i", "e", "s", "g", "o">>,
    <<"d", "e", "s", "a", "f", "í", "o">>,
    <<"c", "o", "m", "p", "e", "t", "e", "n", "c", "i", "a", " ", "i", "n", "t", "e", "n", "s", "a">>,
    <<"c", "a", "m", "b", "i", "o", "s", " ", "r", "e", "g", "u", "l", "a", "t", "o", "r", "i", "o", "s">>
}

OpportunityWord == <<"o", "p", "o", "r", "t", "u", "n", "i", "d", "a", "d">>

\* k: the threat indicators present in the lower-cased text
ThreatsPresent(text) ==
    Cardinality({w \in ThreatWords : OccurrencesOf(w, Lower(text)) > 0})

\* t: the occurrences of 'amenaza' plus the occurrences of 'riesgo'
ThreatMentions(text) ==
    OccurrencesOf(<<"a", "m", "e", "n", "a", "z", "a">>, Lower(text))
        + OccurrencesOf(<<"r", "i", "e", "s", "g", "o">>, Lower(text))

\* o: the occurrences of 'oportunidad'
OpportunityMentions(text) == OccurrencesOf(OpportunityWord, Lower(text))

RiskCalled   == extracted.op = "risk"
GrowthCalled == extracted.op = "growth"
RecsCalled   == extracted.op = "recs"
ProcessCalled == extracted.op = "process"

\* C14: _extract_risk_level, given any text, the empty string or None, returns one of
\* Bajo, Medio, Alto.
C14_RiskLevelInRange ==
    RiskCalled => extracted.value \in RiskLevels

C14_Witness ==
    /\ RiskCalled
    /\ extract_input = PyNone
    /\ extracted.value = <<"Bajo">>

\* C15: _extract_growth_potential, given any text, the empty string or None, returns
\* one of Bajo, Medio, Medio-Alto, Alto and never a value outside that set.
C15_GrowthPotentialInRange ==
    GrowthCalled => extracted.value \in GrowthPotentials

\* C16: for a non-empty text with k threat indicators present, t occurrences of
\* 'amenaza' and 'riesgo' and o occurrences of 'oportunidad', _extract_risk_level
\* returns Alto if k >= 3 or t > o, otherwise Medio if k = 2 or t = o, otherwise Bajo.
C16_RiskDecisionRule ==
    (RiskCalled /\ extract_input # PyNone /\ extract_input # <<>>)
        => LET k == ThreatsPresent(extract_input)
               t == ThreatMentions(extract_input)
               o == OpportunityMentions(extract_input)
           IN  extracted.value =
                   IF k >= 3 \/ t > o THEN <<"Alto">>
                   ELSE IF k = 2 \/ t = o THEN <<"Medio">>
                   ELSE <<"Bajo">>

C16_Witness ==
    /\ RiskCalled /\ extract_input # PyNone /\ extract_input # <<>>
    /\ ThreatsPresent(extract_input) = 1
    /\ ThreatMentions(extract_input) = 1
    /\ OpportunityMentions(extract_input) = 2
    /\ extracted.value = <<"Bajo">>

\* C17: for a text, empty or not, in which no threat word and no opportunity word
\* occurs, _extract_risk_level returns Bajo.
C17_NoVocabularyYieldsLow ==
    (/\ RiskCalled /\ extract_input # PyNone
     /\ ThreatsPresent(extract_input) = 0
     /\ OpportunityMentions(extract_input) = 0)
        => extracted.value = <<"Bajo">>

\* C18: _extract_recommendations returns between 1 and 5 entries for every input: None,
\* the empty string, a text with more than five matching lines, a text with none.
C18_RecommendationsBetween1And5 ==
    RecsCalled => Len(extracted.value) >= 1 /\ Len(extracted.value) <= 5

C18_Witness ==
    /\ RecsCalled /\ extract_input # PyNone
    /\ Len(SectionRecs(extract_input)) > 5
    /\ Len(extracted.value) = 5

\* the text of C19 and its like with list items of more than 20 characters
DoXDoYText == Join(<<L_Header, L_DoX, L_DoY>>, "\n")
LongItemsText == Join(<<L_Header, L_Ampliar, L_Renovar>>, "\n")

C20_SummaryTruncatedAt500 ==
    ProcessCalled =>
        LET selected == extracted.value.raw_result
            summary  == extracted.value.executive_summary
        IN  /\ Len(summary) <= 503
            /\ Len(selected) <= 500 => summary = selected
            /\ Len(selected) > 500 =>
                   /\ Len(summary) = 503
                   /\ \A i \in 1..500 : summary[i] = selected[i]
                   /\ \A i \in 501..503 : summary[i] = "."

C20_Witness ==
    /\ ProcessCalled
    /\ Len(extracted.value.raw_result) = 501
    /\ Len(extracted.value.executive_summary) = 503

\* what each stage of _extract_recommendations collects from a text: the section
\* search, the action-verb lines, the numbered lines, the canned list
StageOutput(k, text) ==
    CASE k = 1 -> SectionRecs(text)
      [] k = 2 -> KeywordRecs(text)
      [] k = 3 -> NumberedRecs(text)
      [] OTHER -> CannedRecs

\* C21: the list _extract_recommendations returns for a non-empty text is the output
\* (cut to five) of one stage, and every stage before that one collected nothing: a
\* later stage contributes only when all earlier ones are empty, so entries of two
\* stages are never mixed.
C21_StagesStrictlyGated ==
    (RecsCalled /\ Truthy(extract_input))
        => \E k \in 1..4 :
              /\ StageOutput(k, extract_input) # <<>>
              /\ extracted.value = Prefix(StageOutput(k, extract_input), 5)
              /\ \A j \in 1..(k - 1) : StageOutput(j, extract_input) = <<>>

C21_Witness ==
    /\ RecsCalled /\ Truthy(extract_input)
    /\ StageOutput(1, extract_input) # <<>>
    /\ StageOutput(2, extract_input) # <<>>
    /\ Range(StageOutput(2, extract_input)) \cap Range(extracted.value) = {}
    /\ extracted.value = StageOutput(1, extract_input)

IsHeaderLine(line) == OccurrencesOf(SectionHeader, Lower(line)) > 0

IsMarkedLine(line) == \E m \in Range(ListPrefixes) : StartsWith(line, m)

\* the line without a list marker it starts with, stripped
MarkerStripped(line) ==
    {Strip(SubSeq(line, Len(m) + 1, Len(line))) : m \in {x \in Range(ListPrefixes) : StartsWith(line, x)}}

\* the boundary line of C22: non-empty, no list marker, no digit first, over 50 characters
ClaimedBoundary(line) ==
    /\ line # <<>>
    /\ ~IsMarkedLine(line)
    /\ ~IsDigit(line[1])
    /\ Len(line) > 50

\* the line that ends the collection: a boundary line that does not hold the header phrase
SectionBoundary(line) == ClaimedBoundary(line) /\ ~IsHeaderLine(line)

\* the lines stage 1 may collect from, given which boundary lines close the section
\* (Closes[i] for line i): those after the first header line with no closing line
\* between the header and them
OpenLines(lines, Closes) ==
    LET headers == {i \in DOMAIN lines : IsHeaderLine(lines[i])} IN
    IF headers = {} THEN {}
    ELSE {i \in DOMAIN lines :
             /\ i > Min(headers)
             /\ \A j \in (Min(headers) + 1)..(i - 1) : ~Closes[j]}

\* every entry stage 1 collected is the marker-stripped text, of more than 20
\* characters, of a marked open line, and there are no more entries than such lines
CollectedFromOpenLines(text, Closes) ==
    LET lines == StrippedLines(text)
        open  == {i \in OpenLines(lines, Closes) : IsMarkedLine(lines[i])}
        recs  == SectionRecs(text)
    IN  /\ Len(recs) <= Cardinality(open)
        /\ \A n \in DOMAIN recs :
               /\ Len(recs[n]) > 20
               /\ \E i \in open : recs[n] \in MarkerStripped(lines[i])

\* C22 (as claimed): stage 1 collects only after the header line and stops at the first
\* later line that is non-empty, starts with no list marker and no digit and has more
\* than 50 characters; every entry is a marker-stripped line of more than 20 characters.
C22_StopsAtFirstLongLine ==
    (RecsCalled /\ Truthy(extract_input))
        => CollectedFromOpenLines(extract_input,
               [i \in DOMAIN StrippedLines(extract_input) |->
                   ClaimedBoundary(StrippedLines(extract_input)[i])])

\* C22 (amended): as claimed, except that a line holding the header phrase never ends
\* the collection, whatever its length: the collection stops at the first later line
\* that is non-empty, starts with no list marker and no digit, has more than 50
\* characters and does not contain 'recomendaciones estratégicas'.
C22_StopsAtFirstLongNonHeaderLine ==
    (RecsCalled /\ Truthy(extract_input))
        => CollectedFromOpenLines(extract_input,
               [i \in DOMAIN StrippedLines(extract_input) |->
                   SectionBoundary(StrippedLines(extract_input)[i])])

C22_Witness ==
    /\ RecsCalled
    /\ extract_input = Join(<<L_Header, L_Ampliar, L_Conclusiones, L_Renovar>>, "\n")
    /\ extracted.value = <<SubSeq(L_Ampliar, 4, Len(L_Ampliar))>>

\* stages 1 to 3 of _extract_recommendations find nothing in the input
NothingFound(input) ==
    \/ ~Truthy(input)
    \/ \A k \in 1..3 : StageOutput(k, input) = <<>>

\* C23: whenever stages 1 to 3 find nothing, also for None and for the empty string,
\* _extract_recommendations returns the one fixed canned list of five entries.
C23_OneCannedList ==
    (RecsCalled /\ NothingFound(extract_input))
        => /\ Len(extracted.value) = 5
           /\ extracted.value = CannedRecs

\* str() of an attribute of the engine result; the empty text when it has no such attribute
FieldText(res, field) ==
    IF field \in DOMAIN res.attrs THEN Fmt(res.attrs[field]) ELSE <<>>

\* the first non-empty text among the raw field, the output field and str(resultado)
FirstNonEmpty(res) ==
    IF FieldText(res, "raw") # <<>> THEN FieldText(res, "raw")
    ELSE IF FieldText(res, "output") # <<>> THEN FieldText(res, "output")
    ELSE res.text

\* C24: the text _process_crewai_result selects is the first non-empty one among the raw
\* field, the output field and the string form of the object: the output when raw is
\* empty and output is not, the string form when both are empty.
C24_FirstNonEmptySelected ==
    ProcessCalled => extracted.value.raw_result = FirstNonEmpty(crew_result)

\* C25: when the selected text is empty, the executive_summary of the record is a canned
\* non-empty paragraph, never the empty string.
C25_EmptyTextGetsCannedSummary ==
    (ProcessCalled /\ extracted.value.raw_result = <<>>)
        => extracted.value.executive_summary # <<>>

-----------------------------------------------------------------------------
(* Properties of analyze_company: cost and working directory *)

\* the multiplier of an analysis type: complete x10, strategic x5, digital x3, else x1
TypeMultiplier(analysis_type) ==
    CASE analysis_type = T_complete -> 10
      [] analysis_type = T_strategic -> 5
      [] analysis_type = T_digital -> 3
      [] OTHER -> 1

\* C26: the estimated_cost of a record of the real engine or of the simulation is the
\* base cost of 10 cents times the multiplier of the request's analysis type (none of
\* the requests has a supplementary text of more than 500 characters).
C26_CostByAnalysisType ==
    \A s \in Sessions :
        (Done(s) /\ returned[s].success /\ SourceOf(returned[s]) \in {RealSource, SimulationSource})
            => returned[s].estimated_cost = 10 * TypeMultiplier(analysis_config[s]["analysis_type"])

\* C27: when a call of analyze_company returns, the working directory is the one the
\* call was started in, whatever the engine did (returned a result, returned an empty
\* one, raised, or gave a result whose processing raised).
C27_CwdRestoredOnReturn ==
    \A s \in Sessions : Done(s) => cwd = cwd_before

\* a call started outside the project root, whose engine raised, has returned there
C27_Witness ==
    /\ Done(1)
    /\ engine_outcome[1] = "raised"
    /\ original_dir[1] = LaunchDir
    /\ cwd_before = LaunchDir
    /\ cwd = LaunchDir

\* both sessions have made their call and both calls have returned
BothReturned == \A s \in Sessions : calls[s] = 1 /\ pc[s] \in {"idle", "done"}

\* C28: once the calls of both sessions have returned, the working directory is
\* the one it was before either call started, however their statements interleaved.
C28_ConcurrentCallsRestoreCwd ==
    BothReturned => cwd = cwd_before

-----------------------------------------------------------------------------
(* Properties of the pages of the application *)

\* C29: in every state of the session, analysis_completed is set only if
\* analysis_result is set too and holds a record with success True; and after an
\* analysis that failed no result is stored, so none is shown.
C29_CompletedOnlyWithSuccessfulResult ==
    /\ K_completed \in DOMAIN session_state
           => /\ K_result \in DOMAIN session_state
              /\ session_state[K_result].success = TRUE
    /\ last_analysis = "failure"
           => /\ K_result \notin DOMAIN session_state
              /\ ~Displayed

\* an analysis has failed in a session where an earlier one had succeeded
C29_Witness ==
    /\ script = "page"
    /\ last_analysis = "failure"
    /\ had_success
    /\ K_completed \notin DOMAIN session_state

\* C30: the file that "SÍ, Eliminar" removes is the file whose "Eliminar" button
\* set the confirmation flag of that index.
C30_RemovesTheArmedFile ==
    removed # NoRecord => removed.file = removed.armed_by

====
